---------------------------- MODULE Spec2Model ----------------------------
(***************************************************************************)
(* Trade-lifecycle engine of freqtrade (src/freqtrade/freqtradebot.py).   *)
(*                                                                         *)
(* The bot's state is the persisted trade repository; the exchange's      *)
(* state is its order book.  One action per handler: one entry attempt    *)
(* (create_trade/execute_buy), one iteration of exit_positions, one       *)
(* iteration of check_handle_timedout, the force-exit of the RPC thread,  *)
(* and the exchange's own steps (fills, cancellations).                    *)
(*                                                                         *)
(* A handler is written as an operator from a context (trades, orders,    *)
(* pair locks, a log of what it did, the exception in flight) to the SET  *)
(* of contexts it can end in: an exchange call or an oracle decision      *)
(* branches, everything else is computed as the code computes it.         *)
(***************************************************************************)
EXTENDS Integers, Sequences, FiniteSets, TLC

\* ------------------------------------------------------------------ bounds
MaxTrades == 2
NumPairs  == 2
MaxOrders == 3
MaxFills  == 1
MaxTrail  == 1
\* the largest quantity _safe_sell_amount is asked about on its own
MaxAmount == 100
\* the largest order amount get_real_amount is asked about on its own
MaxQuantity == 5

\* ----------------------------------------------------- program constants
\* config['stake_amount'], config['max_open_trades'] and the fee rate are
\* configuration values; quantities are integers (units of the base
\* currency), rates are integers (quote currency per unit).
stake_amount_cfg == 90
\* strategy.stoploss in percent (a negative fraction of the open rate)
stoploss_pct == -10
\* edge.stoploss(pair) in percent, when the risk model is active
edge_stoploss_pct == -20
\* config['tradable_balance_ratio'] in percent, unless configured otherwise
tradable_balance_ratio == 100
\* config['last_stake_amount_min_ratio'] in percent
last_stake_amount_min_ratio == 50
\* ask_strategy order_book_min and order_book_max
order_book_min == 1
order_book_max == 2
\* exchange.get_fee: the fee rate in percent
FeeRates == {1}
\* TTLCache(maxsize=100, ttl=5): the time an entry of a rate cache lives
ttl == 5
\* order_types['stoploss_on_exchange_interval'] in seconds, unless configured
update_beat == 60

TradeIds == 1..MaxTrades
Pairs    == 1..NumPairs
OrderIds == 1..MaxOrders
None     == 0
\* get_buy_rate: the limit of a buy; the prices a buy can fill at
BuyRates  == {30}
FillRates == {20, 30}
\* get_sell_rate and the asks of the order book: the limit of a sell
SellRates == {25}

VARIABLES
  trades,    \* the repository: trade id -> Trade
  orders,    \* the exchange's order book: order id -> Order
  locks,     \* pairs the strategy has locked (lock_pair)
  config,    \* the configuration, fixed at start
  env,       \* what the exchange, the strategy and the pairlist are able
             \* to do in this run, fixed at start
  lock,      \* holder of _sell_lock: "none", "main" or "rpc"
  pc,        \* position of the main loop in process()
  todo,      \* what the current phase of process() still has to visit
  rpc,       \* position of the RPC thread's force-exit
  active_pair_whitelist,
  buy_rate_cache,   \* _buy_rate_cache: pair -> the rate stored and its age
  sell_rate_cache,  \* _sell_rate_cache: pair -> the rate stored and its age
  looked,    \* side -> pair -> the rate the last lookup returned, the
             \* rate the last lookup that asked the price source
             \* returned, and the time since each
  last       \* what the handler of the step just taken did (its inputs
             \* and its log); empty after any other step

vars == <<trades, orders, locks, config, env, lock, pc, todo, rpc,
         active_pair_whitelist, buy_rate_cache, sell_rate_cache, looked,
         last>>

rates == <<buy_rate_cache, sell_rate_cache, looked>>

\* ------------------------------------------------------------ data model
NoTrade ==
  [st |-> "none", pair |-> 0, is_open |-> FALSE, open_order_id |-> None,
   stoploss_order_id |-> None, amount |-> 0, stake_amount |-> 0,
   open_rate |-> 0, fee_open |-> 0, close_rate |-> None,
   close_profit |-> "None", close_date |-> "None",
   close_rate_requested |-> None, sell_reason |-> "none",
   stop_loss |-> None, open_trade_price |-> 0,
   stoploss_last_update |-> "None"]

NoOrder ==
  [status |-> "none", side |-> "none", amount |-> 0, remaining |-> 0,
   price |-> 0, trade |-> 0]

NoFee == [currency |-> "none", cost |-> 0]

\* The fee an order dict or a fill reports: in the base currency of the
\* pair, or none (a fee in another currency is read as none).
FeeInfos ==
  {NoFee, [currency |-> "base", cost |-> 1]}

Exists(tr) == tr.st = "yes"

\* Trade.get_open_trades(): the trades with is_open.
get_open_trades(ts) == {t \in TradeIds : Exists(ts[t]) /\ ts[t].is_open}

\* Trade.get_open_order_trades(): the trades with an open_order_id.
get_open_order_trades(ts) ==
  {t \in TradeIds : Exists(ts[t]) /\ ts[t].open_order_id # None}

Max2(a, b) == IF a >= b THEN a ELSE b

\* A variant of get_free_open_trades that does not count the open trades.
get_free_open_trades_uncounted(ts) == config.max_open_trades

\* get_free_open_trades(), lines 191-197
get_free_open_trades(ts) ==
  Max2(0, config.max_open_trades - Cardinality(get_open_trades(ts)))

\* --------------------------------------------------------------- contexts
\* c.exc is the exception in flight: "none", "dep" (DependencyException),
\* "invalid" (InvalidOrderException).
NoDict ==
  [id |-> None, status |-> "none", side |-> "none", amount |-> 0,
   remaining |-> 0, filled |-> 0, cost |-> 0, price |-> 0, fee |-> NoFee]

NoCancel == [has_remaining |-> FALSE, has_fee |-> FALSE, dict |-> NoDict]

\* c.order is the order dict the handler got from the exchange for the
\* trade's entry or exit order, c.corder the answer to its cancel request,
\* c.stoploss_order the stoploss order it fetched, c.t the trade it works on,
\* c.held the stoploss_order_id the trade held when the handler last asked
\* the exchange for a stoploss order, c.free the free balance of the stake
\* currency the wallet showed and c.stake what stake sizing answered,
\* c.sellable what _safe_sell_amount answered for c.amount when the wallet
\* showed c.wallet.  c.cache holds the two rate caches and c.looked the
\* record of the lookups; c.rate is what the last rate lookup answered and
\* c.invoked whether it asked the price source.  c.stop_price is the stop
\* price create_stoploss_order was last called with and c.created what that
\* call returned ("unset" when an exception left it).
Sides == {"buy", "sell"}

NoEntry == [rate |-> None, age |-> 0]

NoCache == [p \in Pairs |-> NoEntry]

NoLook == [val |-> None, since |-> 0, fetched |-> None, fetched_since |-> 0]

NoLooks == [s \in Sides |-> [p \in Pairs |-> NoLook]]

NoStake == [exc |-> "unset", val |-> 0]

NoAmount == [exc |-> "unset", val |-> 0]

\* c.attempt is the trade and the pair locks as the last call of
\* execute_sell found them, and the length of the log at that point.
NoAttempt == [trade |-> NoTrade, locks |-> {}, at |-> 0]

Ctx(ts, os, ls) ==
  [trades |-> ts, orders |-> os, locks |-> ls, log |-> <<>>,
   exc |-> "none", ret |-> FALSE, t |-> 0, order |-> NoDict,
   corder |-> NoCancel, stoploss_order |-> NoDict, old |-> FALSE,
   held |-> None, free |-> 0, stake |-> NoStake, target |-> 0,
   wallet |-> 0, amount |-> 0, sellable |-> NoAmount,
   cache |-> [buy |-> buy_rate_cache, sell |-> sell_rate_cache],
   looked |-> looked, rate |-> None, invoked |-> FALSE,
   stop_price |-> None, created |-> "unset", elapsed |-> -1, pair |-> 0,
   attempt |-> NoAttempt]

Bind(S, F(_)) == UNION {F(c) : c \in S}

Log(c, e) == [c EXCEPT !.log = Append(@, e)]

Raise(c, e) == [c EXCEPT !.exc = e]

SetTrade(c, t, tr) == [c EXCEPT !.trades[t] = tr]

FreeOrderIds(os) == {o \in OrderIds : os[o].status = "none"}

FreeTradeIds(ts) == {t \in TradeIds : ts[t].st = "none"}

MinOf(S) == CHOOSE x \in S : \A y \in S : x <= y

\* ------------------------------------------------- fee/amount reconciliation
\* The per-fill records get_trades_for_order can return for an order.
FillRecs(order_amount) ==
  [amount : 1..Max2(order_amount, 1), fee : FeeInfos]

FillLists(order_amount) ==
  IF env.fees
    THEN UNION {[1..n -> FillRecs(order_amount)] : n \in 0..MaxFills}
    ELSE {<<>>}

RECURSIVE SumAmount(_)
SumAmount(fs) ==
  IF fs = <<>> THEN 0 ELSE Head(fs).amount + SumAmount(Tail(fs))

RECURSIVE SumBaseFee(_)
SumBaseFee(fs) ==
  IF fs = <<>> THEN 0
  ELSE (IF Head(fs).fee.currency = "base" THEN Head(fs).fee.cost ELSE 0)
       + SumBaseFee(Tail(fs))

\* A variant of get_real_amount that takes the fills as they are.
real_amount_unmatched(tr, order, order_amount, fills) ==
  IF tr.fee_open = 0 \/ order.status = "open"
    THEN [exc |-> "none", val |-> order_amount]
  ELSE IF order.fee.currency = "base"
    THEN [exc |-> "none", val |-> order_amount - order.fee.cost]
  ELSE IF Len(fills) = 0
    THEN [exc |-> "none", val |-> order_amount]
  ELSE [exc |-> "none", val |-> SumAmount(fills) - SumBaseFee(fills)]

\* get_real_amount, given the fills the exchange returns when asked:
\* [exc, val], exc = "dep" when the fills do not add up to the order amount.
real_amount_from(tr, order, order_amount, fills) ==
  IF tr.fee_open = 0 \/ order.status = "open"
    THEN [exc |-> "none", val |-> order_amount]
  ELSE IF order.fee.currency = "base"
    THEN [exc |-> "none", val |-> order_amount - order.fee.cost]
  ELSE IF Len(fills) = 0
    THEN [exc |-> "none", val |-> order_amount]
  ELSE IF SumAmount(fills) # order_amount
    THEN [exc |-> "dep", val |-> 0]
  ELSE [exc |-> "none", val |-> SumAmount(fills) - SumBaseFee(fills)]

\* get_real_amount: every result it can have; the exchange is asked for the
\* fills only on the fallback path.
get_real_amount(tr, order, order_amount) ==
  IF tr.fee_open = 0 \/ order.status = "open" \/ order.fee.currency = "base"
    THEN {real_amount_from(tr, order, order_amount, <<>>)}
    ELSE {real_amount_from(tr, order, order_amount, fs) :
            fs \in FillLists(order_amount)}

\* ------------------------------------------------------------ persistence
\* Trade.recalc_open_trade_price
recalc_open_trade_price(tr) ==
  [tr EXCEPT !.open_trade_price = tr.amount * tr.open_rate * (100 + tr.fee_open)]

\* Trade.close(rate)
close(tr, rate) ==
  [tr EXCEPT !.close_rate = rate, !.close_profit = "set",
             !.close_date = "now", !.is_open = FALSE,
             !.open_order_id = None]

\* Trade.update(order): open and cancelled orders are ignored.
update(tr, order) ==
  IF order.status # "closed" THEN tr
  ELSE IF order.side = "buy"
    THEN [recalc_open_trade_price(
            [tr EXCEPT !.open_rate = order.price, !.amount = order.amount])
          EXCEPT !.open_order_id = None]
  ELSE IF order.side = "sell"
    THEN close(tr, order.price)
  ELSE close([tr EXCEPT !.stoploss_order_id = None,
                        !.close_rate_requested = tr.stop_loss],
             order.price)

\* --------------------------------------------------------------- exchange
\* The order dict the exchange returns for order o of its book.
OrderDict(id, o, fee) ==
  [id |-> id, status |-> o.status, side |-> o.side, amount |-> o.amount,
   remaining |-> o.remaining, filled |-> o.amount - o.remaining,
   cost |-> (o.amount - o.remaining) * o.price, price |-> o.price,
   fee |-> fee]

\* The faults an exchange call can end in.
Faults == IF env.faults THEN {"invalid", "dep"} ELSE {}

DepFault(c) == IF env.faults THEN {Raise(c, "dep")} ELSE {}

\* --------------------------------------------------------------- rate cache
\* cache[pair] = rate, lines 272 and 656: a new entry.
cache_store(cache, pair, rate) ==
  [cache EXCEPT ![pair] = [rate |-> rate, age |-> 0]]

\* cache.get(pair), lines 245 and 641: the rate of a live entry, or None.
cache_get(cache, pair) ==
  IF cache[pair].rate # None /\ cache[pair].age < ttl
    THEN cache[pair].rate
    ELSE None

\* The lookup for pair on side has answered rate.
Looked(c, side, pair, rate, invoked) ==
  [c EXCEPT !.looked[side][pair] =
              [val |-> rate, since |-> 0,
               fetched |-> IF invoked THEN rate ELSE @.fetched,
               fetched_since |-> IF invoked THEN 0 ELSE @.fetched_since],
            !.rate = rate, !.invoked = invoked]

\* Lines 250-272 and 646-656: the price source (the order book or the
\* ticker) is asked and answers one of the rates of source, or fails; its
\* answer is stored.
fetch_rate(c, side, pair, source) ==
  DepFault([c EXCEPT !.invoked = TRUE])
  \cup {Looked([c EXCEPT !.cache[side] = cache_store(@, pair, r)],
               side, pair, r, TRUE) : r \in source}

\* A variant of get_buy_rate and get_sell_rate that does not read the cache.
get_rate_uncached(c, side, pair, refresh, source) ==
  fetch_rate(c, side, pair, source)

\* get_buy_rate(pair, refresh) and get_sell_rate(pair, refresh): the cache
\* of the side is read unless refresh is set.
get_rate(c, side, pair, refresh, source) ==
  LET rate == IF refresh THEN None ELSE cache_get(c.cache[side], pair)
  IN IF rate # None
       THEN {Looked(c, side, pair, rate, FALSE)}
       ELSE fetch_rate(c, side, pair, source)

\* _notify_sell, _notify_sell_cancel and _notify_buy_cancel (lines 581,
\* 1082, 1119): the message carries the current rate, from the cache when
\* the cache has it, else from the price source, whose answer is stored;
\* when the price source fails the exception leaves the notification and
\* no message is sent.  Any time can have passed since the entry was
\* stored: it is read, or it has run out and the price source is asked.
\* rpc.send_msg itself returns whatever becomes of the message.
notify_rate(c, e, side, pair) ==
  LET source == IF side = "buy" THEN BuyRates ELSE SellRates
  IN {IF c1.exc # "none" THEN Log(c1, "notify_failed") ELSE Log(c1, e) :
        c1 \in get_rate(c, side, pair, FALSE, source)
               \cup fetch_rate(c, side, pair, source)}

\* A second passes: the entries of both caches age, and an entry ttl old
\* is gone.
aged(cache) ==
  [p \in Pairs |->
     IF cache[p].rate = None \/ cache[p].age + 1 >= ttl
       THEN NoEntry
       ELSE [cache[p] EXCEPT !.age = @ + 1]]

\* The record of the lookups a second later: a lookup ttl ago is
\* forgotten.
later(looks) ==
  [s \in Sides |-> [p \in Pairs |->
     LET l == looks[s][p]
         gone == l.val = None \/ l.since + 1 >= ttl
         fetched_gone == l.fetched = None \/ l.fetched_since + 1 >= ttl
     IN [val |-> IF gone THEN None ELSE l.val,
         since |-> IF gone THEN 0 ELSE l.since + 1,
         fetched |-> IF fetched_gone THEN None ELSE l.fetched,
         fetched_since |-> IF fetched_gone THEN 0 ELSE l.fetched_since + 1]]]

\* The fee an order dict can report: nothing filled, no fee.
OrderFees(o) ==
  IF o.remaining = o.amount \/ ~env.fees THEN {NoFee} ELSE FeeInfos

\* exchange.get_order: the order, or one of the two faults.
get_order(os, id) ==
  {[exc |-> "none", order |-> OrderDict(id, os[id], f)] : f \in OrderFees(os[id])}
  \cup {[exc |-> e, order |-> OrderDict(id, NoOrder, NoFee)] : e \in Faults}

\* ------------------------------------------------------ update_trade_state
\* A variant of lines 1167-1179 that brings stake_amount in line with the
\* corrected amount.
apply_order_restaked(tr, order, r) ==
  IF r.exc = "none" /\ r.val # order.amount
    THEN LET tr1 == update(recalc_open_trade_price([tr EXCEPT !.fee_open = 0]),
                           [order EXCEPT !.amount = r.val])
         IN [tr1 EXCEPT !.stake_amount = tr1.amount * tr1.open_rate]
    ELSE update(tr, order)

\* Lines 1167-1179: the amount correction and Trade.update, for one result
\* r of get_real_amount.
apply_order(tr, order, r) ==
  IF r.exc = "none" /\ r.val # order.amount
    THEN update(recalc_open_trade_price([tr EXCEPT !.fee_open = 0]),
                [order EXCEPT !.amount = r.val])
    ELSE update(tr, order)

\* A variant of update_trade_state that leaves the trade as it is.
update_trade_state_skipped(c, t, order) == {c}

\* update_trade_state with the order already in hand (action_order).
update_trade_state_with(c, t, order) ==
  IF c.trades[t].open_order_id = None THEN {c}
  ELSE {SetTrade(c, t, apply_order(c.trades[t], order, r)) :
          r \in get_real_amount(c.trades[t], order, order.amount)}

\* update_trade_state(trade): fetches the pending order first.
update_trade_state(c, t) ==
  IF c.trades[t].open_order_id = None THEN {c}
  ELSE UNION {
    IF g.exc = "invalid" THEN {Log(c, "fetch_failed")}
    ELSE IF g.exc = "dep" THEN {Raise(c, "dep")}
    ELSE update_trade_state_with([c EXCEPT !.order = g.order], t, g.order) :
    g \in get_order(c.orders, c.trades[t].open_order_id)}

\* ------------------------------------------------------------ stake sizing
\* Trade.total_open_trades_stakes()
total_open_trades_stakes(ts) ==
  LET RECURSIVE Sum(_)
      Sum(S) == IF S = {} THEN 0
                ELSE LET x == CHOOSE y \in S : TRUE
                     IN ts[x].stake_amount + Sum(S \ {x})
  IN Sum(get_open_trades(ts))

\* _get_available_stake_amount, tradable_balance_ratio in percent.
get_available_stake_amount(ts, free) ==
  ((total_open_trades_stakes(ts) + free) * config.tradable_balance_ratio) \div 100
  - total_open_trades_stakes(ts)

\* A variant of _calculate_unlimited_stake_amount that does not look at the
\* free slots first.
calculate_unlimited_unguarded(ts, free) ==
  get_available_stake_amount(ts, free) \div Max2(1, get_free_open_trades(ts))

\* _calculate_unlimited_stake_amount
calculate_unlimited_stake_amount(ts, free) ==
  IF get_free_open_trades(ts) = 0 THEN 0
  ELSE get_available_stake_amount(ts, free) \div get_free_open_trades(ts)

\* A variant of _check_available_stake_amount that amends the stake and
\* does not compare it with the available balance.
check_available_unchecked(ts, free, stake_amount) ==
  [exc |-> "none", val |-> stake_amount]

\* _check_available_stake_amount(stake_amount): [exc, val]
check_available_stake_amount(ts, free, stake_amount) ==
  LET available_amount == get_available_stake_amount(ts, free)
      amended ==
        IF config.amend_last_stake_amount
          THEN IF available_amount * 100 > stake_amount * last_stake_amount_min_ratio
                 THEN (IF stake_amount <= available_amount
                         THEN stake_amount ELSE available_amount)
                 ELSE 0
          ELSE stake_amount
  IN IF available_amount < amended
       THEN [exc |-> "dep", val |-> 0]
       ELSE [exc |-> "none", val |-> amended]

\* What edge.stake_amount can answer when the risk model is active.
EdgeStakes == {0, 60, 300}

\* Lines 286-296: the stake get_trade_stake_amount aims at, before it is
\* compared with the available balance.
target_stake(ts, free, edge_stake) ==
  IF config.edge THEN edge_stake
  ELSE IF config.unlimited_stake THEN calculate_unlimited_stake_amount(ts, free)
  ELSE stake_amount_cfg

\* get_trade_stake_amount(pair), with the free balance the wallet shows and
\* the answer of the risk model: [exc, val].
get_trade_stake_amount(ts, free, edge_stake) ==
  check_available_stake_amount(ts, free, target_stake(ts, free, edge_stake))

\* ------------------------------------------------------------- execute_buy
\* What exchange.buy can return for a limit buy of amount at rate: the
\* order as the exchange books it, the fee it reports, or a fault.
BuyOrders(amount, rate) ==
  {[status |-> "open", side |-> "buy", amount |-> amount,
    remaining |-> amount, price |-> rate, trade |-> 0]}
  \cup {[status |-> "closed", side |-> "buy", amount |-> amount,
         remaining |-> 0, price |-> p, trade |-> 0] :
         p \in {q \in FillRates : q <= rate}}
  \cup {[status |-> st, side |-> "buy", amount |-> amount,
         remaining |-> r, price |-> rate, trade |-> 0] :
         st \in {"expired", "rejected"},
         r \in IF env.partial THEN 1..amount ELSE {amount}}

\* Lines 496-523: the stake, amount, price and order id the new trade gets.
buy_values(order, stake_amount, amount, buy_limit_requested) ==
  IF order.status \in {"expired", "rejected"}
    THEN [stake_amount |-> order.cost, amount |-> order.amount,
          price |-> order.price, order_id |-> None]
  ELSE IF order.status = "closed"
    THEN [stake_amount |-> order.cost, amount |-> order.amount,
          price |-> order.price, order_id |-> order.id]
  ELSE [stake_amount |-> stake_amount, amount |-> amount,
        price |-> buy_limit_requested, order_id |-> order.id]

\* Lines 526-540: the Trade object.
new_trade(pair, v, fee) ==
  recalc_open_trade_price(
    [NoTrade EXCEPT !.st = "yes", !.pair = pair, !.is_open = TRUE,
                    !.stake_amount = v.stake_amount, !.amount = v.amount,
                    !.fee_open = fee, !.open_rate = v.price,
                    !.open_order_id = v.order_id])

\* A variant of buy_result that never declines.
buy_without_decline(c, t, pair, order, stake_amount, amount, rate, fee) ==
  LET v  == buy_values(order, stake_amount, amount, rate)
      c1 == [SetTrade(c, t, new_trade(pair, v, fee))
             EXCEPT !.order = order, !.t = t]
  IN {[Log(Log(c1, "persist"), "notify_buy") EXCEPT !.ret = TRUE]}

\* Lines 496-554, once the exchange has answered with order (already in
\* the book as c.orders[order.id]): decline, or build, update, persist and
\* announce the trade in slot t.
buy_persist(c, t, pair, order, stake_amount, amount, rate, fee) ==
  LET v  == buy_values(order, stake_amount, amount, rate)
      c1 == [SetTrade(c, t, new_trade(pair, v, fee))
             EXCEPT !.order = order, !.t = t]
      S  == IF order.status = "closed"
              THEN update_trade_state_with(c1, t, order)
              ELSE {c1}
  IN {[Log(Log(c2, "persist"), "notify_buy") EXCEPT !.ret = TRUE] : c2 \in S}

buy_result(c, t, pair, order, stake_amount, amount, rate, fee) ==
  IF order.status \in {"expired", "rejected"} /\ order.filled = 0
    THEN {[c EXCEPT !.ret = FALSE, !.order = order]}
    ELSE buy_persist(c, t, pair, order, stake_amount, amount, rate, fee)

\* A variant of lines 476-483 that declines without locking the pair.
decline_without_lock(c, pair) ==
  {[Log(c, "below_minimum") EXCEPT !.ret = FALSE]}

\* Lines 476-483: the stake is below the minimum of the pair; the entry is
\* declined and the pair is locked.
decline_below_minimum(c, pair) ==
  {[Log(Log(c, "below_minimum"), "lock_pair") EXCEPT
      !.locks = @ \cup {pair}, !.ret = FALSE]}

\* execute_buy(pair, stake_amount)
execute_buy(c0, pair, stake_amount) ==
  IF FreeOrderIds(c0.orders) = {} \/ FreeTradeIds(c0.trades) = {} THEN {}
  ELSE
  LET id == MinOf(FreeOrderIds(c0.orders))
      t  == MinOf(FreeTradeIds(c0.trades))
  IN Bind(get_rate(c0, "buy", pair, TRUE, BuyRates), LAMBDA c :
     IF c.exc # "none" THEN {c} ELSE
     LET rate == c.rate IN
     UNION {
       IF min # None /\ min > stake_amount
         THEN decline_below_minimum(c, pair)
       ELSE IF stake_amount \div rate <= 0
         THEN {Raise(c, "dep")} \* the exchange refuses the amount
       ELSE
         DepFault(c) \cup
         UNION {UNION {
           buy_result([Log(c, "buy") EXCEPT !.orders[id] = [o EXCEPT !.trade = t]],
                      t, pair, OrderDict(id, o, f), stake_amount,
                      stake_amount \div rate, rate, fee) :
           f \in OrderFees(o), fee \in FeeRates} :
           o \in BuyOrders(stake_amount \div rate, rate)} :
       min \in {None, stake_amount + 1}})

\* ------------------------------------------------------------ execute_sell
\* exchange.cancel_order(id): "ok" (only an open order can be cancelled),
\* or one of the two faults.
CancelResults(os, id) ==
  (IF os[id].status = "open" THEN {"ok"} ELSE {}) \cup Faults

\* The book after cancel_order(id) answered res.
cancelled(os, id, res) ==
  IF res = "ok" THEN [os EXCEPT ![id].status = "canceled"] ELSE os

\* A variant of _safe_sell_amount that trusts the recorded amount.
safe_sell_amount_recorded(wallet_amount, amount) ==
  [exc |-> "none", val |-> amount]

\* _safe_sell_amount(pair, amount) with the wallet's free balance: [exc, val]
safe_sell_amount(wallet_amount, amount) ==
  IF wallet_amount >= amount THEN [exc |-> "none", val |-> amount]
  ELSE IF wallet_amount * 100 > amount * 98
    THEN [exc |-> "none", val |-> wallet_amount]
  ELSE [exc |-> "dep", val |-> 0]

\* The free balances the wallet can show for a trade of amount.
Wallets(amount) ==
  IF env.faults THEN {amount, Max2(amount - 1, 0)} ELSE {amount}

\* A variant of lines 1039-1044 that gives the sale up when the stoploss
\* order cannot be cancelled.
sell_cancel_stoploss_strict(c, t) ==
  LET tr == c.trades[t]
  IN IF config.stoploss_on_exchange /\ tr.stoploss_order_id # None
       THEN {IF res \in Faults
               THEN Raise(Log(Log(c, "cancel_stoploss"),
                              IF res = "dep" THEN "cancel_raised"
                                             ELSE "cancel_failed"), res)
             ELSE [Log(c, "cancel_stoploss") EXCEPT
                     !.orders = cancelled(@, tr.stoploss_order_id, res)] :
             res \in CancelResults(c.orders, tr.stoploss_order_id)}
       ELSE {c}

\* Lines 1039-1044: cancel the stoploss order on the exchange first; an
\* InvalidOrderException is logged, anything else leaves execute_sell.
sell_cancel_stoploss(c, t) ==
  LET tr == c.trades[t]
  IN IF config.stoploss_on_exchange /\ tr.stoploss_order_id # None
       THEN {IF res = "dep"
               THEN Raise(Log(Log(c, "cancel_stoploss"), "cancel_raised"), "dep")
             ELSE IF res = "invalid"
               THEN Log(Log(c, "cancel_stoploss"), "cancel_failed")
             ELSE [Log(c, "cancel_stoploss") EXCEPT
                     !.orders = cancelled(@, tr.stoploss_order_id, res)] :
             res \in CancelResults(c.orders, tr.stoploss_order_id)}
       ELSE {c}

\* Lines 1054-1073: the sell order is placed (or exchange.sell raises).
sell_place(c, t, amount, limit, sell_reason) ==
  IF FreeOrderIds(c.orders) = {} THEN {}
  ELSE
  LET id == MinOf(FreeOrderIds(c.orders))
      placed(st) ==
        LET o  == [status |-> st, side |-> "sell", amount |-> amount,
                   remaining |-> IF st = "closed" THEN 0 ELSE amount,
                   price |-> limit, trade |-> t]
            tr == [c.trades[t] EXCEPT !.open_order_id = id,
                                      !.close_rate_requested = limit,
                                      !.sell_reason = sell_reason]
            c1 == [Log(c, "sell") EXCEPT !.orders[id] = o]
            c2 == SetTrade(c1, t, IF st = "closed"
                                    THEN update(tr, OrderDict(id, o, NoFee))
                                    ELSE tr)
        IN notify_rate([Log(c2, "lock_pair") EXCEPT
                          !.locks = @ \cup {c.trades[t].pair}, !.ret = TRUE],
                       "notify_sell", "sell", c.trades[t].pair)
  IN placed("open") \cup placed("closed") \cup {Raise(c, e) : e \in Faults}

\* execute_sell(trade, limit, sell_reason)
execute_sell(c, t, limit, sell_reason) ==
  Bind(sell_cancel_stoploss(
         [c EXCEPT !.attempt = [trade |-> c.trades[t], locks |-> c.locks,
                                at |-> Len(c.log)]], t),
       LAMBDA c1 :
         IF c1.exc # "none" THEN {c1}
         ELSE UNION {
           LET a  == safe_sell_amount(w, c1.trades[t].amount)
               c2 == [c1 EXCEPT !.wallet = w, !.amount = c1.trades[t].amount,
                                !.sellable = a]
           IN IF a.exc # "none" THEN {Raise(c2, a.exc)}
              ELSE sell_place(c2, t, a.val, limit, sell_reason) :
           w \in Wallets(c1.trades[t].amount)})

\* ---------------------------------------------------- create_stoploss_order
\* Line 723: the trade is sold forcefully, at trade.stop_loss.
emergency_sell(c, t) ==
  execute_sell(c, t, c.trades[t].stop_loss, "emergency_sell")

\* A variant of create_stoploss_order that does not record the id of the
\* order it placed.
create_stoploss_order_unrecorded(c0, t, stop_price) ==
  IF FreeOrderIds(c0.orders) = {} THEN {}
  ELSE
  LET id == MinOf(FreeOrderIds(c0.orders))
      tr == c0.trades[t]
      o  == [status |-> "open", side |-> "stoploss", amount |-> tr.amount,
             remaining |-> tr.amount, price |-> stop_price, trade |-> t]
  IN {[Log([c0 EXCEPT !.held = tr.stoploss_order_id], "stoploss")
       EXCEPT !.orders[id] = o, !.ret = TRUE]}

\* create_stoploss_order(trade, stop_price, rate): the order is placed and
\* recorded; or the exchange rejects it (InvalidOrderException) and the
\* trade is sold at trade.stop_loss; or the call fails otherwise.
create_stoploss_order(c0, t, stop_price) ==
  IF FreeOrderIds(c0.orders) = {} THEN {}
  ELSE
  LET id == MinOf(FreeOrderIds(c0.orders))
      tr == c0.trades[t]
      c  == [c0 EXCEPT !.held = tr.stoploss_order_id,
                       !.stop_price = stop_price, !.created = "unset"]
      o  == [status |-> "open", side |-> "stoploss", amount |-> tr.amount,
             remaining |-> tr.amount, price |-> stop_price, trade |-> t]
      ok == [SetTrade(Log(c, "stoploss"), t,
                      [tr EXCEPT !.stoploss_order_id = id,
                                 !.stoploss_last_update = "set"])
             EXCEPT !.orders[id] = o, !.ret = TRUE, !.created = "True"]
      cleared == SetTrade(Log(c, "stoploss_failed"), t,
                          [tr EXCEPT !.stoploss_order_id = None])
  IN {ok} \cup
     (IF env.faults
        THEN {IF c1.exc = "none"
                THEN [c1 EXCEPT !.ret = FALSE, !.created = "False"]
                ELSE [c1 EXCEPT !.ret = FALSE] :
                c1 \in emergency_sell(Log(cleared, "emergency_sell"), t)}
             \cup {[cleared EXCEPT !.ret = FALSE, !.created = "False"]}
        ELSE {})

\* ------------------------------------------ stoploss on exchange, trailing
\* A variant of line 768 that does not ask the risk model.
stoploss_fraction_strategy == stoploss_pct

\* Line 768: the stoploss fraction, in percent: the risk model's when it is
\* active, the strategy's otherwise.
stoploss_fraction == IF config.edge THEN edge_stoploss_pct ELSE stoploss_pct

\* exchange.stoploss_adjust(stop_loss, order): the stop has moved up.
stoploss_adjust(stop_loss, order) == stop_loss > order.price

\* The bid, ask and last price the rate lookups of lines 823-828 can see:
\* the rate a buy is placed at, the ask and the last price next to it, or
\* any of a fallen bid, a wider spread and a trade above the bid.
Tickers ==
  {[bid |-> b, ask |-> b + s, last |-> b + l] :
     b \in IF env.spread THEN {17} \cup BuyRates ELSE BuyRates,
     s \in IF env.spread THEN {1, 2} ELSE {1},
     l \in IF env.spread THEN {0, 1} ELSE {0}}

\* Lines 826-833: the stop price that can be placed; pip is one unit.
doable_stop_loss(stop_loss, tk) ==
  IF stop_loss >= tk.bid /\ tk.last > tk.bid
    THEN (IF tk.ask - tk.bid > 1 THEN tk.bid + 1 ELSE tk.bid)
    ELSE stop_loss

\* A variant of lines 848-850 that does not record the replacement.
trailing_replace_unrecorded(c, t, tk) ==
  create_stoploss_order_unrecorded(
    c, t, doable_stop_loss(c.trades[t].stop_loss, tk))

\* Lines 848-850: the replacement order, at the stop price that can be
\* placed with ticker tk.
trailing_replace(c, t, tk) ==
  create_stoploss_order(c, t, doable_stop_loss(c.trades[t].stop_loss, tk))

\* The seconds that can have passed since the stoploss order of a trade was
\* placed when the exit pass looks at it.
Elapsed == {update_beat - 1, update_beat}

\* Line 808: (datetime.utcnow() - trade.stoploss_last_update) >= update_beat,
\* with the two clock readings in seconds.
interval_elapsed(placed, now) == now - placed >= update_beat

\* datetime.now(): the local time at UTC time utc, in seconds.
datetime_now(utc) == utc + env.utc_offset

\* Lines 810-852: the order is cancelled and replaced.
trailing_cancel_and_replace(c, t, order) ==
  UNION {
    IF res = "dep" THEN {Raise(Log(c, "cancel_trailing"), "dep")}
    ELSE
      LET c1 == [Log(c, "cancel_trailing") EXCEPT
                   !.orders = cancelled(@, order.id, res)]
          pair == c.trades[t].pair
      IN UNION {
           Bind(get_rate(c1, "sell", pair, TRUE, {tk.ask}),
                LAMBDA c2 : IF c2.exc # "none" THEN {c2} ELSE
           Bind(get_rate(c2, "buy", pair, TRUE, {tk.bid}),
                LAMBDA c3 : IF c3.exc # "none" THEN {c3} ELSE
                  DepFault(c3) \cup trailing_replace(c3, t, tk))) :
           tk \in Tickers} :
    res \in CancelResults(c.orders, order.id)}

\* handle_trailing_stoploss_on_exchange(trade, order), called e seconds
\* after the order was placed: line 717 stored datetime.now() at UTC time
\* 0, line 808 reads datetime.utcnow() at UTC time e.
handle_trailing_stoploss_on_exchange(c, t, order) ==
  IF ~stoploss_adjust(c.trades[t].stop_loss, order) THEN {c}
  ELSE UNION {
    IF interval_elapsed(datetime_now(0), e)
      THEN trailing_cancel_and_replace([c EXCEPT !.elapsed = e], t, order)
      ELSE {[c EXCEPT !.elapsed = e]} :
    e \in Elapsed}

\* Lines 742-747: the stoploss order of the trade, NoDict when there is
\* none or the fetch failed; a DependencyException propagates.
fetch_stoploss_order(c, t) ==
  LET id == c.trades[t].stoploss_order_id
  IN IF id = None THEN {c}
     ELSE {IF g.exc = "dep" THEN Raise(c, "dep")
           ELSE IF g.exc = "invalid" THEN Log(c, "fetch_stoploss_failed")
           ELSE [c EXCEPT !.stoploss_order = g.order] :
           g \in {h \in get_order(c.orders, id) :
                    h.order.fee = NoFee}}

\* Lines 750-757: the stoploss order so is filled.
stoploss_closed(c, t, so) ==
  LET tr == c.trades[t]
  IN notify_rate(
       [Log(SetTrade(c, t,
          update([tr EXCEPT !.sell_reason = "stoploss_on_exchange"], so)),
        "lock_pair")
        EXCEPT !.locks = @ \cup {tr.pair}, !.ret = TRUE],
       "notify_sell", "sell", tr.pair)

\* A variant of lines 749-793 that places no new order for a stoploss order
\* found cancelled.
stoploss_on_exchange_cancelled_kept(c, t) ==
  LET tr == c.trades[t]
      so == c.stoploss_order
      false(S) == {IF c1.exc = "none" THEN [c1 EXCEPT !.ret = FALSE] ELSE c1 :
                     c1 \in S}
      trailing(c1) ==
        IF so.status # "none" /\ config.trailing_stop
          THEN handle_trailing_stoploss_on_exchange(c1, t, so)
          ELSE {c1}
  IN IF so.status = "closed"
       THEN stoploss_closed(c, t, so)
     ELSE IF tr.open_order_id # None \/ ~tr.is_open
       THEN {[c EXCEPT !.ret = FALSE]}
     ELSE IF so.status = "none"
       THEN false(create_stoploss_order(
                    c, t, (tr.open_rate * (100 + stoploss_fraction)) \div 100))
     ELSE false(trailing(c))

\* Lines 749-793, with the fetched stoploss order in c.stoploss_order.
stoploss_on_exchange_after_fetch(c, t) ==
  LET tr == c.trades[t]
      so == c.stoploss_order
      false(S) == {IF c1.exc = "none" THEN [c1 EXCEPT !.ret = FALSE] ELSE c1 :
                     c1 \in S}
      trailing(c1) ==
        IF so.status # "none" /\ config.trailing_stop
          THEN handle_trailing_stoploss_on_exchange(c1, t, so)
          ELSE {c1}
  IN IF so.status = "closed"
       THEN stoploss_closed(c, t, so)
     ELSE IF tr.open_order_id # None \/ ~tr.is_open
       THEN {[c EXCEPT !.ret = FALSE]}
     ELSE IF so.status = "none"
       THEN false(create_stoploss_order(
                    c, t, (tr.open_rate * (100 + stoploss_fraction)) \div 100))
     ELSE IF so.status = "canceled"
       THEN false(Bind(create_stoploss_order(c, t, tr.stop_loss),
                       LAMBDA c1 :
                         IF c1.exc # "none" \/ c1.ret THEN {c1}
                         ELSE trailing(SetTrade(c1, t,
                                [c1.trades[t] EXCEPT !.stoploss_order_id = None]))))
     ELSE false(trailing(c))

\* handle_stoploss_on_exchange(trade)
handle_stoploss_on_exchange(c, t) ==
  Bind(fetch_stoploss_order(c, t),
       LAMBDA c1 : IF c1.exc # "none" THEN {c1}
                   ELSE stoploss_on_exchange_after_fetch(c1, t))

\* ------------------------------------------------------------ handle_trade
\* The stop the strategy leaves in trade.stop_loss when should_sell has run
\* (Trade.adjust_stop_loss): the initial stop, raised while trailing.
initial_stop(tr) == (tr.open_rate * (100 + stoploss_fraction)) \div 100

StopMoves(tr) ==
  LET base == IF tr.stop_loss = None THEN initial_stop(tr) ELSE tr.stop_loss
  IN {base} \cup (IF config.trailing_stop /\ base < initial_stop(tr) + MaxTrail
                    THEN {base + 1} ELSE {})

SellTypes == {"sell_signal"}

\* _check_and_execute_sell(trade, sell_rate, buy, sell): the strategy's
\* should_sell decides; a sell is executed when it says so.
check_and_execute_sell(c, t, sell_rate) ==
  UNION {
    LET c1 == SetTrade(c, t, [c.trades[t] EXCEPT !.stop_loss = sl])
    IN {[c1 EXCEPT !.ret = FALSE]}
       \cup (IF env.sells
               THEN UNION {execute_sell(c1, t, sell_rate, ty) : ty \in SellTypes}
               ELSE {}) :
    sl \in StopMoves(c.trades[t])}

\* Lines 687-693: the scan of the order book levels i..n, stopping at the
\* first level that sells.
RECURSIVE order_book_scan(_, _, _, _)
order_book_scan(c, t, i, n) ==
  IF i > n THEN {[c EXCEPT !.ret = FALSE]}
  ELSE UNION {
    Bind(check_and_execute_sell(c, t, rate),
         LAMBDA c1 : IF c1.exc # "none" \/ c1.ret THEN {c1}
                     ELSE order_book_scan(c1, t, i + 1, n)) :
    rate \in SellRates}

\* handle_trade(trade)
handle_trade(c0, t) ==
  LET c == Log(c0, "handle_trade")
  IN IF ~c.trades[t].is_open THEN {Raise(c, "dep")}
     ELSE IF config.use_order_book
       THEN DepFault(c) \* the order book is unavailable
            \cup order_book_scan(c, t, order_book_min, order_book_max)
       ELSE Bind(get_rate(c, "sell", c.trades[t].pair, TRUE, SellRates),
                 LAMBDA c1 : IF c1.exc # "none" THEN {c1}
                             ELSE check_and_execute_sell(c1, t, c1.rate))

\* ---------------------------------------------------------- exit_positions
\* Lines 610-622: one iteration of the loop over the open trades.  A
\* DependencyException ends the iteration; anything else propagates.
caught(c) == IF c.exc = "dep" THEN [Log(c, "warning") EXCEPT !.exc = "none"] ELSE c

\* A variant of line 618 that does not look at the pending order.
exit_sell_always(c, t) == handle_trade(c, t)

\* Line 618: the sell logic runs for a trade without a pending order.
exit_sell_logic(c, t) ==
  IF c.trades[t].open_order_id = None THEN handle_trade(c, t) ELSE {c}

exit_trade(c, t) ==
  LET after_update(c1) ==
        Log(c1, IF c1.trades[t].open_order_id # None THEN "pending" ELSE "actionable")
      sell_logic(c2) ==
        IF c2.exc # "none" THEN {c2}
        ELSE IF config.stoploss_on_exchange /\ c2.ret THEN {c2}
        ELSE exit_sell_logic(c2, t)
      stoploss_logic(c1) ==
        IF c1.exc # "none" THEN {c1}
        ELSE IF config.stoploss_on_exchange
          THEN Bind(handle_stoploss_on_exchange(after_update(c1), t), sell_logic)
          ELSE sell_logic([after_update(c1) EXCEPT !.ret = FALSE])
  IN {caught(c3) : c3 \in Bind(update_trade_state([c EXCEPT !.t = t], t),
                                stoploss_logic)}

\* ------------------------------------------------------- timeout handling
\* A variant of _check_timed_out that does not look at the age of the order
\* nor at the configuration.
check_timed_out_any_age(side, order, old) ==
  order.status = "open" /\ order.side = side

\* _check_timed_out(side, order): old says the order is older than the
\* configured timeout.
check_timed_out(side, order, old) ==
  IF config.unfilledtimeout
    THEN order.status = "open" /\ order.side = side /\ old
    ELSE FALSE

\* What cancel_order can answer for the fetched order: the dict need not
\* hold 'remaining' or 'fee', and more may have been filled meanwhile.
\* has_remaining and has_fee say which keys the dict holds.
CancelDicts(order) ==
  {[has_remaining |-> hr, has_fee |-> hf,
    dict |-> [order EXCEPT !.status = "canceled", !.remaining = r,
                           !.filled = order.amount - r,
                           !.cost = (order.amount - r) * order.price,
                           !.fee = f]] :
     hr \in BOOLEAN, hf \in BOOLEAN,
     f \in IF env.fees THEN FeeInfos ELSE {NoFee},
     r \in IF env.partial
             THEN {order.remaining, Max2(order.remaining - 1, 1)}
             ELSE {order.remaining}}

\* A variant that reads the remaining quantity of the order fetched before
\* the cancel request only.
remaining_before_cancel(co, order) == order.remaining

\* corder.get('remaining', order['remaining'])
remaining_after(co, order) ==
  IF co.has_remaining THEN co.dict.remaining ELSE order.remaining

\* A variant of lines 936-967 that never deletes the trade.
timedout_buy_never_delete(c, t, order, co) ==
  {[Log(SetTrade(c, t, [c.trades[t] EXCEPT !.open_order_id = None]),
        "notify_status") EXCEPT !.ret = FALSE]}

\* Lines 936-967 of handle_timedout_limit_buy, with the answer co to the
\* cancel request (the order itself when it was cancelled already).
timedout_buy_after_cancel(c, t, order, co) ==
  LET tr  == c.trades[t]
      rem == remaining_after(co, order)
  IN IF rem = order.amount
       THEN {[Log(SetTrade(c, t, NoTrade), "delete") EXCEPT !.ret = TRUE]}
     ELSE
       LET tr1 == [tr EXCEPT !.amount = order.amount - rem,
                             !.stake_amount = (order.amount - rem) * tr.open_rate]
           fix(r) ==
             IF r.exc = "none" /\ r.val # order.amount
               THEN recalc_open_trade_price(
                      [tr1 EXCEPT !.amount = r.val, !.fee_open = 0])
               ELSE tr1
       IN {[Log(SetTrade(c, t, [fix(r) EXCEPT !.open_order_id = None]),
                "notify_status") EXCEPT !.ret = FALSE] :
           r \in get_real_amount(tr1, IF co.has_fee THEN co.dict ELSE order,
                                   tr1.amount)}

\* handle_timedout_limit_buy(trade, order)
handle_timedout_limit_buy(c, t, order) ==
  IF order.status # "canceled"
    THEN {Raise(Log(c, "cancel"), e) : e \in Faults}
         \cup UNION {
           timedout_buy_after_cancel(
             [Log(c, "cancel") EXCEPT
                !.orders[order.id].status = "canceled",
                !.orders[order.id].remaining = co.dict.remaining,
                !.corder = co],
             t, order, co) :
           co \in CancelDicts(order)}
    ELSE timedout_buy_after_cancel(
           [c EXCEPT !.corder = [has_remaining |-> TRUE, has_fee |-> TRUE,
                                 dict |-> order]],
           t, order,
           [has_remaining |-> TRUE, has_fee |-> TRUE, dict |-> order])

\* A variant of lines 985-991 that keeps the pending-order marker.
reopened_with_order(tr) ==
  [tr EXCEPT !.close_rate = None, !.close_profit = "None",
             !.close_date = "None", !.is_open = TRUE]

\* Lines 985-991: the trade is open again.
reopened(tr) ==
  [tr EXCEPT !.close_rate = None, !.close_profit = "None",
             !.close_date = "None", !.is_open = TRUE,
             !.open_order_id = None]

\* handle_timedout_limit_sell(trade, order)
handle_timedout_limit_sell(c, t, order) ==
  IF order.remaining = order.amount
    THEN IF order.status # "canceled"
           THEN {Raise(Log(c, "cancel"), e) : e \in Faults}
                \cup {[SetTrade(Log(c, "cancel"), t, reopened(c.trades[t]))
                       EXCEPT !.orders[order.id].status = "canceled",
                              !.ret = TRUE]}
           ELSE {[SetTrade(c, t, reopened(c.trades[t])) EXCEPT !.ret = TRUE]}
    ELSE {[c EXCEPT !.ret = FALSE]}

\* Lines 902-919 of check_handle_timedout, with the fetched order.
timedout_with_order(c, t, order, old) ==
  LET pair == c.trades[t].pair
      notify(S, e, side) ==
        UNION {IF c1.exc = "none" THEN notify_rate(c1, e, side, pair) ELSE {c1} :
               c1 \in S}
  IN IF order.remaining = 0 THEN {Log(c, "wallets_update")}
     ELSE IF (order.side = "buy" /\ order.status = "canceled")
              \/ check_timed_out("buy", order, old)
       THEN notify(handle_timedout_limit_buy(c, t, order),
                   "notify_buy_cancel", "buy")
     ELSE IF (order.side = "sell" /\ order.status = "canceled")
              \/ check_timed_out("sell", order, old)
       THEN notify(handle_timedout_limit_sell(c, t, order),
                   "notify_sell_cancel", "sell")
     ELSE {c}

\* Lines 890-919: one iteration of the loop of check_handle_timedout.
timedout_trade(c, t) ==
  IF c.trades[t].open_order_id = None THEN {c}
  ELSE UNION {
    IF g.exc # "none" THEN {Log([c EXCEPT !.t = t], "fetch_failed")}
    ELSE UNION {timedout_with_order([c EXCEPT !.t = t, !.order = g.order, !.old = old],
                                    t, g.order, old) :
                old \in BOOLEAN} :
    g \in get_order(c.orders, c.trades[t].open_order_id)}

\* -------------------------------------------------------------- force exit
\* The RPC thread's forced exit of trade t at the current rate, run under
\* the sell lock; a trade with a pending order is left alone, and the RPC
\* layer reports a fault to the user.
force_exit(c, t) ==
  IF c.trades[t].open_order_id # None \/ ~c.trades[t].is_open THEN {c}
  ELSE {[c1 EXCEPT !.exc = "none"] :
          c1 \in UNION {execute_sell([c EXCEPT !.t = t], t, rate, "force_sell") :
                         rate \in SellRates}}

\* ------------------------------------------------------------ create_trade
\* The free balance of the stake currency the wallet can show.
FreeBalances == {0, 120, 180}

\* create_trade(pair): no buy signal, or the entry is attempted.
create_trade(c, pair) ==
  IF pair \in c.locks THEN {[c EXCEPT !.ret = FALSE]}
  ELSE {[c EXCEPT !.ret = FALSE]} \* no buy signal
    \cup (IF get_free_open_trades(c.trades) = 0 THEN {[c EXCEPT !.ret = FALSE]}
          ELSE UNION {
            LET s  == get_trade_stake_amount(c.trades, free, edge_stake)
                c1 == [c EXCEPT !.free = free, !.stake = s,
                                !.target = target_stake(c.trades, free, edge_stake)]
            IN IF s.exc # "none" THEN {Raise(c1, s.exc)}
               ELSE IF s.val = 0 THEN {[c1 EXCEPT !.ret = FALSE]}
               ELSE execute_buy(c1, pair, s.val) :
            free \in FreeBalances,
            edge_stake \in IF config.edge THEN EdgeStakes ELSE {0}})

\* Lines 225-229: one iteration of the loop of enter_positions.
enter_pair(c, pair) ==
  {caught(c1) : c1 \in create_trade([c EXCEPT !.pair = pair], pair)}

\* ------------------------------------------------------------- the system
\* The exchange keeps every order; the model forgets those that are over
\* and that no trade refers to, and those of a trade that is gone: nothing
\* looks them up again.
Referenced(ts, o) ==
  \E t \in TradeIds : Exists(ts[t]) /\ o \in {ts[t].open_order_id, ts[t].stoploss_order_id}

Forget(os, ts) ==
  [o \in OrderIds |->
     IF \/ os[o].status \notin {"none", "open"} /\ ~Referenced(ts, o)
        \/ os[o].status # "none" /\ ~Exists(ts[os[o].trade])
       THEN NoOrder ELSE os[o]]

\* The repository keeps closed trades; the model forgets them when the
\* pass over the open trades is over and when the cycle commits: no query
\* of the bot returns them again.
Archive(ts) ==
  [t \in TradeIds |-> IF Exists(ts[t]) /\ ~ts[t].is_open THEN NoTrade ELSE ts[t]]

Configs ==
  [max_open_trades : 1..MaxTrades,
   stoploss_on_exchange : BOOLEAN, trailing_stop : BOOLEAN,
   use_order_book : BOOLEAN, unfilledtimeout : BOOLEAN,
   edge : BOOLEAN, unlimited_stake : BOOLEAN,
   amend_last_stake_amount : BOOLEAN,
   tradable_balance_ratio : {50, tradable_balance_ratio}]

\* The offset of the machine's local time from UTC, in seconds.
UtcOffsets == {-3600, 0, 3600}

Envs ==
  [faults : BOOLEAN, fees : BOOLEAN, partial : BOOLEAN, sells : BOOLEAN,
   spread : BOOLEAN, pairlist : BOOLEAN, markets : SUBSET Pairs \ {{}},
   utc_offset : UtcOffsets]

\* What a handler leaves behind: its name, the trade it worked on, the
\* repository it started from, what it got from the exchange, what it did
\* (its log), the exception that left it and what it returned.
Done(op, c, before) ==
  [op |-> op, t |-> c.t, before |-> before, log |-> c.log, exc |-> c.exc,
   ret |-> c.ret, order |-> c.order, corder |-> c.corder, old |-> c.old,
   stoploss_order |-> c.stoploss_order, held |-> c.held,
   free |-> c.free, stake |-> c.stake, target |-> c.target,
   wallet |-> c.wallet, amount |-> c.amount, sellable |-> c.sellable,
   stop_price |-> c.stop_price, created |-> c.created,
   elapsed |-> c.elapsed, attempt |-> c.attempt,
   side |-> "none", pair |-> c.pair, refresh |-> FALSE, rate |-> None,
   invoked |-> FALSE, fills |-> <<>>, real |-> NoAmount, whitelist |-> {}]

NoLast == Done("none", Ctx(<<>>, <<>>, {}), <<>>)

Init ==
  /\ trades = [t \in TradeIds |-> NoTrade]
  /\ orders = [o \in OrderIds |-> NoOrder]
  /\ locks = {}
  /\ config \in Configs
  /\ env \in Envs
  /\ lock = "none"
  /\ pc = "idle"
  /\ todo = {}
  /\ rpc = "idle"
  /\ active_pair_whitelist = {}
  /\ buy_rate_cache = NoCache
  /\ sell_rate_cache = NoCache
  /\ looked = NoLooks
  /\ last = NoLast

\* A handler ended in context c: its effects, and the cycle goes on at
\* next_pc, or ends here when an exception leaves process().
Apply(c, rest) ==
  /\ trades' = c.trades
  /\ orders' = Forget(c.orders, c.trades)
  /\ locks' = c.locks
  /\ buy_rate_cache' = c.cache.buy
  /\ sell_rate_cache' = c.cache.sell
  /\ looked' = c.looked
  /\ IF c.exc = "none"
       THEN /\ todo' = rest
            /\ UNCHANGED <<pc, lock>>
       ELSE /\ todo' = {}
            /\ pc' = "idle"
            /\ lock' = IF lock = "main" THEN "none" ELSE lock

\* A variant of _refresh_whitelist that does not add the pairs of the open
\* trades.
refresh_whitelist_bare(wl, ts) == wl

\* _refresh_whitelist(trades), lines 175-183, with the whitelist the
\* pairlist (and the risk model) left.
refresh_whitelist(wl, ts) ==
  wl \cup {ts[t].pair : t \in get_open_trades(ts)}

\* process(), lines 136-145: the open trades are queried, the whitelist is
\* refreshed and extended with the pairs of the open trades.  The step
\* leaves behind the whitelist the pairlist and the risk model gave.
ProcessStart ==
  /\ pc = "idle"
  /\ \E wl \in (IF env.pairlist THEN SUBSET env.markets ELSE {env.markets}) :
       \* edge.adjust keeps the pairs the risk model admits
       \E adjusted \in (IF config.edge THEN SUBSET wl ELSE {wl}) :
         /\ active_pair_whitelist' = refresh_whitelist(adjusted, trades)
         /\ last' = [Done("refresh", Ctx(trades, orders, locks), trades)
                     EXCEPT !.whitelist = adjusted]
  /\ todo' = get_open_trades(trades)
  /\ pc' = "lock"
  /\ UNCHANGED rates
  /\ UNCHANGED <<trades, orders, locks, config, env, lock, rpc>>

\* A variant of line 150 that does not wait for the lock.
ProcessLockNoWait ==
  /\ pc = "lock"
  /\ lock' = "main"
  /\ pc' = "exit"
  /\ last' = NoLast
  /\ UNCHANGED rates
  /\ UNCHANGED <<trades, orders, locks, config, env, todo, rpc,
                 active_pair_whitelist>>

\* process(), line 150: with self._sell_lock
ProcessLock ==
  /\ pc = "lock"
  /\ lock = "none"
  /\ lock' = "main"
  /\ pc' = "exit"
  /\ last' = NoLast
  /\ UNCHANGED rates
  /\ UNCHANGED <<trades, orders, locks, config, env, todo, rpc,
                 active_pair_whitelist>>

\* exit_positions: the next trade of the list.
ExitTrade ==
  /\ pc = "exit"
  /\ todo # {}
  /\ LET t == MinOf(todo)
     IN \E c \in exit_trade(Ctx(trades, orders, locks), t) :
          /\ Apply(c, todo \ {t})
          /\ last' = Done("exit", c, trades)
  /\ UNCHANGED <<config, env, rpc, active_pair_whitelist>>

\* A variant of lines 209-217 that keeps the pairs of the open trades.
enter_whitelist_whole(wl, ts) == wl

\* enter_positions, lines 209-217: the pairs of the whitelist without the
\* pairs of the open trades.
enter_whitelist(wl, ts) == wl \ {ts[t].pair : t \in get_open_trades(ts)}

\* The list is done: the lock is released, and enter_positions starts when
\* a slot is free (lines 155-156, 209-223), else check_handle_timedout.
ExitDone ==
  /\ pc = "exit"
  /\ todo = {}
  /\ lock' = "none"
  /\ IF get_free_open_trades(trades) # 0
       THEN /\ pc' = "enter"
            /\ todo' = enter_whitelist(active_pair_whitelist, trades)
       ELSE /\ pc' = "timeout"
            /\ todo' = get_open_order_trades(trades)
  /\ trades' = Archive(trades)
  /\ orders' = Forget(orders, Archive(trades))
  /\ last' = NoLast
  /\ UNCHANGED rates
  /\ UNCHANGED <<locks, config, env, rpc, active_pair_whitelist>>

\* enter_positions: the next pair of the shuffled whitelist.
EnterPair ==
  /\ pc = "enter"
  /\ \E pair \in todo :
       \E c \in enter_pair(Ctx(trades, orders, locks), pair) :
         /\ Apply(c, todo \ {pair})
         /\ last' = Done("enter", c, trades)
  /\ UNCHANGED <<config, env, rpc, active_pair_whitelist>>

EnterDone ==
  /\ pc = "enter"
  /\ todo = {}
  /\ pc' = "timeout"
  /\ todo' = get_open_order_trades(trades)
  /\ last' = NoLast
  /\ UNCHANGED rates
  /\ UNCHANGED <<trades, orders, locks, config, env, lock, rpc,
                 active_pair_whitelist>>

\* check_handle_timedout: the next trade with an open order.
TimeoutTrade ==
  /\ pc = "timeout"
  /\ todo # {}
  /\ LET t == MinOf(todo)
     IN \E c \in timedout_trade(Ctx(trades, orders, locks), t) :
          /\ Apply(c, todo \ {t})
          /\ last' = Done("timeout", c, trades)
  /\ UNCHANGED <<config, env, rpc, active_pair_whitelist>>

\* Trade.session.flush(), line 160: the cycle is over.
TimeoutDone ==
  /\ pc = "timeout"
  /\ todo = {}
  /\ pc' = "idle"
  /\ trades' = Archive(trades)
  /\ orders' = Forget(orders, Archive(trades))
  /\ last' = NoLast
  /\ UNCHANGED rates
  /\ UNCHANGED <<locks, config, env, lock, todo, rpc, active_pair_whitelist>>

\* The RPC thread takes the sell lock for a forced exit.
ForceLock ==
  /\ rpc = "idle"
  /\ lock = "none"
  /\ lock' = "rpc"
  /\ rpc' = "locked"
  /\ last' = NoLast
  /\ UNCHANGED rates
  /\ UNCHANGED <<trades, orders, locks, config, env, pc, todo,
                 active_pair_whitelist>>

\* The forced exit of an open trade (none when the trade asked for is not
\* open), and the release of the lock.
ForceExit ==
  /\ rpc = "locked"
  /\ IF get_open_trades(trades) = {}
       THEN /\ last' = NoLast
            /\ UNCHANGED <<trades, orders, locks, rates>>
       ELSE \E t \in get_open_trades(trades) :
              \E c \in force_exit(Ctx(trades, orders, locks), t) :
                /\ trades' = c.trades
                /\ orders' = Forget(c.orders, c.trades)
                /\ locks' = c.locks
                /\ buy_rate_cache' = c.cache.buy
                /\ sell_rate_cache' = c.cache.sell
                /\ looked' = c.looked
                /\ last' = Done("force", c, trades)
  /\ rpc' = "idle"
  /\ lock' = "none"
  /\ UNCHANGED <<config, env, pc, todo, active_pair_whitelist>>

\* The exchange fills more of an open order (all of it: the order closes).
ExchangeFill ==
  /\ \E o \in OrderIds :
       /\ orders[o].status = "open"
       /\ \E r \in 0..(orders[o].remaining - 1) :
            /\ (orders[o].side = "stoploss" \/ ~env.partial) => r = 0
            /\ orders' = Forget([orders EXCEPT
                                    ![o].remaining = r,
                                    ![o].status = IF r = 0 THEN "closed" ELSE "open"],
                                 trades)
  /\ last' = NoLast
  /\ UNCHANGED rates
  /\ UNCHANGED <<trades, locks, config, env, lock, pc, todo, rpc,
                 active_pair_whitelist>>

\* An open order is cancelled on the exchange.
ExchangeCancel ==
  /\ \E o \in OrderIds :
       /\ orders[o].status = "open"
       /\ orders' = Forget([orders EXCEPT ![o].status = "canceled"], trades)
  /\ last' = NoLast
  /\ UNCHANGED rates
  /\ UNCHANGED <<trades, locks, config, env, lock, pc, todo, rpc,
                 active_pair_whitelist>>

\* A pair lock runs out.
Unlock ==
  /\ \E p \in locks : locks' = locks \ {p}
  /\ last' = NoLast
  /\ UNCHANGED rates
  /\ UNCHANGED <<trades, orders, config, env, lock, pc, todo, rpc,
                 active_pair_whitelist>>

\* get_trade_stake_amount(pair) is called by a user of the bot (a forced
\* entry asks it for the stake): the wallet is read, the repository is not
\* changed.
StakeQuery ==
  /\ \E free \in FreeBalances :
       \E edge_stake \in (IF config.edge THEN EdgeStakes ELSE {0}) :
         last' = Done("stake",
                      [Ctx(trades, orders, locks) EXCEPT
                         !.free = free,
                         !.target = target_stake(trades, free, edge_stake),
                         !.stake = get_trade_stake_amount(trades, free, edge_stake)],
                      trades)
  /\ UNCHANGED rates
  /\ UNCHANGED <<trades, orders, locks, config, env, lock, pc, todo, rpc,
                 active_pair_whitelist>>

\* _safe_sell_amount(pair, amount) is asked about an amount while the
\* wallet shows any balance: nothing but the wallet is read, and the answer
\* depends on the two quantities only, so that one question is followed by
\* another step of the bot.
SafeSellQuery ==
  /\ last.op # "sellable"
  /\ \E wallet_amount \in 0..MaxAmount :
       \E amount \in 0..MaxAmount :
         last' = Done("sellable",
                      [Ctx(trades, orders, locks) EXCEPT
                         !.wallet = wallet_amount,
                         !.amount = amount,
                         !.sellable = safe_sell_amount(wallet_amount, amount)],
                      trades)
  /\ UNCHANGED rates
  /\ UNCHANGED <<trades, orders, locks, config, env, lock, pc, todo, rpc,
                 active_pair_whitelist>>

\* get_real_amount(trade, order, order_amount) is asked about an order of
\* the trade: the fee rate the trade was opened with, the state of the
\* order, the fee it reports, the amount to reconcile and the fills the
\* exchange holds for the order are any; nothing is changed.
RealAmountQuery ==
  /\ last.op # "real"
  /\ \E a \in 1..MaxQuantity :
       \E order_amount \in 1..a :
         \E st \in {"open", "closed"} :
           \E f \in FeeInfos :
             \E fee_open \in {0} \cup FeeRates :
               \E fills \in FillLists(order_amount) :
                 LET t  == MinOf(TradeIds)
                     id == MinOf(OrderIds)
                     tr == [NoTrade EXCEPT !.st = "yes", !.pair = MinOf(Pairs),
                                           !.is_open = TRUE, !.amount = a,
                                           !.open_order_id = id,
                                           !.fee_open = fee_open]
                     order == [NoDict EXCEPT !.id = id, !.status = st,
                                             !.side = "buy", !.amount = a,
                                             !.fee = f]
                 IN last' = [Done("real",
                                  [Ctx(trades, orders, locks) EXCEPT
                                     !.t = t, !.order = order,
                                     !.amount = order_amount],
                                  [trades EXCEPT ![t] = tr])
                             EXCEPT !.fills = fills,
                                    !.real = real_amount_from(
                                               tr, order, order_amount, fills)]
  /\ UNCHANGED rates
  /\ UNCHANGED <<trades, orders, locks, config, env, lock, pc, todo, rpc,
                 active_pair_whitelist>>

\* What the price source can answer for a side: the order book's or the
\* ticker's rate of the moment.
Quotes(side) ==
  IF side = "buy"
    THEN BuyRates \cup {tk.bid : tk \in Tickers}
    ELSE SellRates \cup {tk.ask : tk \in Tickers}

\* The sides a rate is asked for: both for the first pair of the exchange,
\* the sell side for the others.
LookupSides(pair) == IF pair = MinOf(env.markets) THEN Sides ELSE {"sell"}

\* get_buy_rate(pair, refresh) or get_sell_rate(pair, refresh) is called for
\* a pair of the exchange, allowing cached data or not.
RateLookup ==
  /\ \E pair \in env.markets :
       \E side \in LookupSides(pair) :
         \E refresh \in BOOLEAN :
           \E c \in get_rate(Ctx(trades, orders, locks), side, pair, refresh,
                             Quotes(side)) :
             /\ buy_rate_cache' = c.cache.buy
             /\ sell_rate_cache' = c.cache.sell
             /\ looked' = c.looked
             /\ last' = [Done("rate", c, trades) EXCEPT
                           !.side = side, !.pair = pair, !.refresh = refresh,
                           !.rate = c.rate, !.invoked = c.invoked]
  /\ UNCHANGED <<trades, orders, locks, config, env, lock, pc, todo, rpc,
                 active_pair_whitelist>>

\* A second passes.
Tick ==
  /\ buy_rate_cache' = aged(buy_rate_cache)
  /\ sell_rate_cache' = aged(sell_rate_cache)
  /\ looked' = later(looked)
  /\ last' = NoLast
  /\ UNCHANGED <<trades, orders, locks, config, env, lock, pc, todo, rpc,
                 active_pair_whitelist>>

Next ==
  \/ ProcessStart
  \/ ProcessLock
  \/ ExitTrade
  \/ ExitDone
  \/ EnterPair
  \/ EnterDone
  \/ TimeoutTrade
  \/ TimeoutDone
  \/ ForceLock
  \/ ForceExit
  \/ ExchangeFill
  \/ ExchangeCancel
  \/ Unlock
  \/ StakeQuery
  \/ SafeSellQuery
  \/ RateLookup
  \/ Tick
  \/ RealAmountQuery

Spec == Init /\ [][Next]_vars

\* --------------------------------------------------------- specifications
\* The configurations and the environments the properties are checked in.
\* A fixed stake, no risk model, the whole balance tradable.
Cfg(n, sloe, trail, book, tmo) ==
  [max_open_trades |-> n, stoploss_on_exchange |-> sloe,
   trailing_stop |-> trail, use_order_book |-> book, unfilledtimeout |-> tmo,
   edge |-> FALSE, unlimited_stake |-> FALSE,
   amend_last_stake_amount |-> FALSE,
   tradable_balance_ratio |-> tradable_balance_ratio]

Env(faults, fees, partial, sells, spread, pairlist, markets) ==
  [faults |-> faults, fees |-> fees, partial |-> partial, sells |-> sells,
   spread |-> spread, pairlist |-> pairlist, markets |-> markets,
   utc_offset |-> 0]

\* The trading cycle and the exchange, without the RPC thread.
NextCycle ==
  \/ ProcessStart
  \/ ProcessLock
  \/ ExitTrade
  \/ ExitDone
  \/ EnterPair
  \/ EnterDone
  \/ TimeoutTrade
  \/ TimeoutDone
  \/ ExchangeFill
  \/ ExchangeCancel
  \/ Unlock

\* Both threads and order timeouts: stoploss on exchange with a reliable
\* exchange, or no stoploss on exchange and every exchange call can fail.
InitLock ==
  /\ \/ /\ config = Cfg(1, TRUE, FALSE, FALSE, TRUE)
        /\ env = Env(FALSE, FALSE, FALSE, TRUE, FALSE, FALSE, {1})
     \/ /\ config = Cfg(1, FALSE, FALSE, FALSE, TRUE)
        /\ env = Env(TRUE, FALSE, FALSE, TRUE, FALSE, FALSE, {1})
  /\ Init

\* The trading cycle, the exchange and the RPC thread's forced exit.
NextThreads ==
  \/ NextCycle
  \/ ForceLock
  \/ ForceExit

SpecLock == InitLock /\ [][NextThreads]_vars

\* Stoploss on exchange with a trailing stop; every exchange call can fail.
InitStoploss ==
  /\ config = Cfg(1, TRUE, TRUE, FALSE, FALSE)
  /\ env = Env(TRUE, FALSE, FALSE, TRUE, FALSE, FALSE, {1})
  /\ Init

SpecStoploss == InitStoploss /\ [][NextCycle]_vars

\* Entries, exits and order timeouts: partial fills, fees in the base
\* currency, and every exchange call can fail; sells at the ticker's rate
\* or at the rates of the order book; one pair, or two pairs for one slot.
InitOrders ==
  /\ config \in {Cfg(1, FALSE, FALSE, book, TRUE) : book \in BOOLEAN}
  /\ env \in {Env(TRUE, TRUE, TRUE, TRUE, FALSE, FALSE, m) : m \in {{1}, Pairs}}
  /\ Init

SpecOrders == InitOrders /\ [][NextCycle]_vars

\* Stoploss on exchange without a trailing stop, with and without the
\* risk model; every exchange call can fail.
InitProtect ==
  /\ config \in {[Cfg(1, TRUE, FALSE, FALSE, FALSE) EXCEPT !.edge = e] :
                   e \in BOOLEAN}
  /\ env = Env(TRUE, FALSE, FALSE, TRUE, FALSE, FALSE, {1})
  /\ Init

SpecProtect == InitProtect /\ [][NextCycle]_vars

\* Stake sizing in every configuration: a fixed or an unlimited stake or
\* the risk model, the last stake amended or not, half or all of the
\* balance tradable, one or two slots for two pairs; a reliable exchange
\* on which no order is cancelled, and a strategy that holds what it bought.
InitStake ==
  /\ config \in {c \in Configs :
                   /\ c.max_open_trades <= 2
                   /\ ~c.stoploss_on_exchange /\ ~c.trailing_stop
                   /\ ~c.use_order_book /\ ~c.unfilledtimeout
                   /\ c.edge => ~c.unlimited_stake}
  /\ env = Env(FALSE, FALSE, FALSE, FALSE, FALSE, FALSE, {1, 2})
  /\ Init

NextStake ==
  \/ ProcessStart
  \/ ProcessLock
  \/ ExitTrade
  \/ ExitDone
  \/ EnterPair
  \/ EnterDone
  \/ TimeoutTrade
  \/ TimeoutDone
  \/ ExchangeFill
  \/ Unlock
  \/ StakeQuery

SpecStake == InitStake /\ [][NextStake]_vars

\* The sellable amount for every recorded amount and every wallet balance
\* up to MaxAmount.
InitSellable ==
  /\ config = Cfg(1, FALSE, FALSE, FALSE, FALSE)
  /\ env = Env(TRUE, FALSE, FALSE, TRUE, FALSE, FALSE, {1})
  /\ Init

SpecSellable == InitSellable /\ [][SafeSellQuery]_vars

\* The rate lookups of both sides for two pairs as time passes, with a
\* price source that moves and can fail.
InitRates ==
  /\ config = Cfg(1, FALSE, FALSE, FALSE, FALSE)
  /\ env = Env(TRUE, FALSE, FALSE, TRUE, FALSE, FALSE, {1, 2})
  /\ Init

NextRates ==
  \/ RateLookup
  \/ Tick

SpecRates == InitRates /\ [][NextRates]_vars

\* Fee reconciliation for every order amount up to MaxQuantity, with the
\* fills an exchange that charges fees in the base currency can report.
InitReal ==
  /\ config = Cfg(1, FALSE, FALSE, FALSE, FALSE)
  /\ env = Env(FALSE, TRUE, TRUE, TRUE, FALSE, FALSE, {1})
  /\ Init

SpecReal == InitReal /\ [][RealAmountQuery]_vars

\* A pairlist that changes from cycle to cycle, with and without the risk
\* model, for two pairs and one slot; a reliable exchange.
InitPairs ==
  /\ config \in {[Cfg(1, FALSE, FALSE, FALSE, FALSE) EXCEPT !.edge = e] :
                   e \in BOOLEAN}
  /\ env = Env(FALSE, FALSE, FALSE, TRUE, FALSE, TRUE, {1, 2})
  /\ Init

SpecPairs == InitPairs /\ [][NextCycle]_vars

\* Stoploss on exchange with a trailing stop on a reliable exchange whose
\* bid, spread and last price move; the machine's clock is set to UTC or to
\* a time zone an hour east or west of it.
InitTrailing ==
  /\ config = Cfg(1, TRUE, TRUE, FALSE, FALSE)
  /\ env \in {[Env(FALSE, FALSE, FALSE, TRUE, TRUE, FALSE, {1})
                 EXCEPT !.utc_offset = o] : o \in UtcOffsets}
  /\ Init

SpecTrailing == InitTrailing /\ [][NextCycle]_vars

\* Order timeouts configured or not, with partial fills and every exchange
\* call able to fail; no stoploss on exchange.
InitTimeout ==
  /\ config \in {Cfg(1, FALSE, FALSE, FALSE, tmo) : tmo \in BOOLEAN}
  /\ env = Env(TRUE, FALSE, TRUE, TRUE, FALSE, FALSE, {1})
  /\ Init

SpecTimeout == InitTimeout /\ [][NextCycle]_vars

\* The exit pass handles a trade and no exchange call of the step fails
\* beyond what the pass catches.
ExitTradeOk == ExitTrade /\ last'.exc = "none"

\* Timeout handling fetches the order of a trade, finds it older than the
\* timeout, and no cancel request of the step fails.
TimeoutTradeOverdue ==
  /\ TimeoutTrade
  /\ last'.order.id # None
  /\ last'.old
  /\ last'.exc = "none"

\* The worker calls process() again and again and each pass of a cycle
\* runs to its end; the exchange calls of the exit pass and of timeout
\* handling succeed again and again, and an order that stays is found
\* overdue again and again.  The entry pass is not run while the only slot
\* is taken, so nothing is asked of its exchange calls.
CycleFairness ==
  /\ WF_vars(ProcessStart)
  /\ WF_vars(ProcessLock)
  /\ WF_vars(ExitDone)
  /\ WF_vars(EnterDone)
  /\ WF_vars(TimeoutDone)
  /\ SF_vars(ExitTradeOk)
  /\ SF_vars(TimeoutTradeOverdue)

\* The cycles of SpecTimeout with a timeout configured, under CycleFairness.
InitLive ==
  /\ config = Cfg(1, FALSE, FALSE, FALSE, TRUE)
  /\ env = Env(TRUE, FALSE, TRUE, TRUE, FALSE, FALSE, {1})
  /\ Init

SpecLive == InitLive /\ [][NextCycle]_vars /\ CycleFairness

\* Two pairs for one or two slots: entries, exits and order timeouts on an
\* exchange that fills or cancels whole orders; every exchange call can
\* fail.
InitSlots ==
  /\ config \in {Cfg(n, FALSE, FALSE, FALSE, TRUE) : n \in 1..MaxTrades}
  /\ env = Env(TRUE, FALSE, FALSE, TRUE, FALSE, FALSE, Pairs)
  /\ Init

SpecSlots == InitSlots /\ [][NextCycle]_vars

\* -------------------------------------------------------------- properties
Logged(e) == \E i \in DOMAIN last.log : last.log[i] = e

\* The handler of the step just taken ran to its end on trade last.t.
Ran(op) == last.op = op /\ last.exc = "none"

\* The order the exchange returned was cancelled there, or has timed out.
Overdue(side) ==
  /\ last.order.side = side
  /\ last.order.remaining # 0
  /\ \/ last.order.status = "canceled"
     \/ config.unfilledtimeout /\ last.old /\ last.order.status = "open"

\* C1: the exit pass of the main cycle runs only while the main thread
\* holds the sell lock, the force-exit only while the RPC thread holds it:
\* the two never run at the same time.
C1_MutualExclusion ==
  /\ pc = "exit" => lock = "main"
  /\ rpc = "locked" => lock = "rpc"
  /\ ~(pc = "exit" /\ rpc = "locked")

\* The main cycle waits for the lock while the RPC thread holds it for an
\* open trade.
C1_Contention ==
  /\ pc = "lock"
  /\ rpc = "locked"
  /\ get_open_trades(trades) # {}

\* C2: in the exit pass, a trade whose open_order_id is still set after
\* its pending order has been reconciled gets no sell order and no
\* stoploss order.
C2_PendingOnlyReconciled ==
  (last.op = "exit" /\ Logged("pending")) =>
    /\ ~Logged("sell")
    /\ ~Logged("stoploss")
    /\ ~Logged("stoploss_failed")
    /\ ~Logged("cancel_trailing")
    /\ ~Logged("buy")

\* The exit pass has met a trade with a pending sell order.
C2_PendingSell ==
  /\ Ran("exit")
  /\ Logged("pending")
  /\ trades[last.t].open_order_id # None
  /\ orders[trades[last.t].open_order_id].side = "sell"

\* C3: every trade has at most one live stoploss order on the exchange,
\* and when the exit pass has run for an actionable trade, a non-null
\* stoploss_order_id refers to that live order.
LiveStoploss(t) ==
  {o \in OrderIds : /\ orders[o].side = "stoploss"
                    /\ orders[o].status = "open"
                    /\ orders[o].trade = t}

C3_OneLiveStoplossOrder ==
  \A t \in TradeIds :
    Exists(trades[t]) =>
      /\ Cardinality(LiveStoploss(t)) <= 1
      /\ (Ran("exit") /\ last.t = t /\ Logged("actionable")
            /\ trades[t].stoploss_order_id # None)
           => trades[t].stoploss_order_id \in LiveStoploss(t)

C5_DeclinedWhenUnfilled ==
  (last.op = "enter" /\ last.order.status \in {"expired", "rejected"}
     /\ last.order.filled = 0) =>
    /\ trades = last.before
    /\ ~Logged("persist")
    /\ ~Logged("notify_buy")
    /\ last.ret = FALSE

\* A buy has come back rejected with nothing filled.
C5_RejectedUnfilled ==
  /\ Ran("enter")
  /\ Logged("buy")
  /\ last.order.status = "rejected"
  /\ last.order.filled = 0

\* C6: when the buy order comes back closed, a trade is persisted that is
\* open, has no pending order, carries the cost and the price of the order
\* and its amount as fee reconciliation leaves it: the amount of the order,
\* less the fee when it was charged in the base currency.
C6_ClosedBuyPersisted ==
  (last.op = "enter" /\ last.order.status = "closed") =>
    LET tr == trades[last.t]
        o  == last.order
    IN /\ Exists(tr)
       /\ ~Exists(last.before[last.t])
       /\ tr.is_open
       /\ tr.open_order_id = None
       /\ tr.stake_amount = o.cost
       /\ tr.open_rate = o.price
       /\ tr.amount <= o.amount
       /\ o.fee.currency = "base" => tr.amount = o.amount - o.fee.cost
       /\ tr.amount < o.amount => tr.fee_open = 0
       /\ tr.amount = o.amount => tr.fee_open \in FeeRates
       /\ Logged("persist")
       /\ last.ret = TRUE

\* A buy has come back closed and the fee was taken off the amount.
C6_ClosedWithFee ==
  /\ Ran("enter")
  /\ last.order.status = "closed"
  /\ Exists(trades[last.t])
  /\ trades[last.t].amount < last.order.amount

\* C7: when the buy order comes back expired or rejected with a partial
\* fill, the trade persisted has the filled quantity as amount, the filled
\* cost as stake, the fill price as open rate, and no pending order.
C7_PartialFillValues ==
  (last.op = "enter" /\ last.order.status \in {"expired", "rejected"}
     /\ last.order.filled > 0 /\ last.order.filled < last.order.amount) =>
    LET tr == trades[last.t]
        o  == last.order
    IN /\ Exists(tr)
       /\ tr.amount = o.filled
       /\ tr.stake_amount = o.cost
       /\ tr.open_rate = o.price
       /\ tr.open_order_id = None

\* C8: when the pending buy order was cancelled on the exchange or has
\* timed out, and nothing of it is filled once it is cancelled, the
\* timeout handling deletes the trade.
C8_UnfilledBuyDeleted ==
  (Ran("timeout") /\ Overdue("buy")
     /\ last.order.remaining = last.order.amount
     /\ last.corder.dict.remaining = last.order.amount) =>
    /\ Exists(last.before[last.t])
    /\ ~Exists(trades[last.t])
    /\ Logged("delete")

\* A buy order has timed out unfilled, was cancelled, and the trade is gone.
C8_TimedOutUnfilled ==
  /\ Ran("timeout")
  /\ Overdue("buy")
  /\ last.order.status = "open"
  /\ Logged("cancel")
  /\ Logged("delete")

\* The quantity of the order that is filled, from the remaining quantity
\* the answer to the cancel request reports (the fetched order's when the
\* answer reports none).
C9_Filled ==
  last.order.amount -
    (IF last.corder.has_remaining THEN last.corder.dict.remaining
                                  ELSE last.order.remaining)

C9_PartialBuyTimeout ==
  /\ Ran("timeout")
  /\ Overdue("buy")
  /\ C9_Filled > 0

C10_UnfilledSellReopened ==
  (Ran("timeout") /\ Overdue("sell")
     /\ last.order.remaining = last.order.amount) =>
    LET tr == trades[last.t]
    IN /\ Exists(tr)
       /\ tr.is_open
       /\ tr.close_rate = None
       /\ tr.close_profit = "None"
       /\ tr.close_date = "None"
       /\ tr.open_order_id = None

\* A sell order has timed out unfilled and was cancelled.
C10_TimedOutSell ==
  /\ Ran("timeout")
  /\ Overdue("sell")
  /\ last.order.status = "open"
  /\ last.order.remaining = last.order.amount
  /\ Logged("cancel")

\* C11: a handler removes a trade from the repository only in the timeout
\* handling of that trade's buy order, and only when nothing of the order
\* is filled on the exchange once it is cancelled; no other handler deletes
\* a trade.
C11_DeletedOnlyUnfilledBuyTimeout ==
  \A t \in TradeIds :
    (last.op # "none" /\ Exists(last.before[t]) /\ ~Exists(trades[t])) =>
      /\ last.op = "timeout"
      /\ last.t = t
      /\ Logged("delete")
      /\ last.order.side = "buy"
      /\ last.corder.dict.remaining = last.order.amount

\* How often the handler of the step just taken did e.
Count(e) == Cardinality({i \in DOMAIN last.log : last.log[i] = e})

\* The exit pass has met an open trade with no pending order and no
\* stoploss order, stoploss on exchange being enabled.
C12_Unprotected ==
  /\ last.op = "exit"
  /\ config.stoploss_on_exchange
  /\ last.before[last.t].is_open
  /\ last.before[last.t].open_order_id = None
  /\ last.before[last.t].stoploss_order_id = None

\* C12: for an open trade with no pending order and no stoploss order, one
\* pass asks the exchange for exactly one stoploss order, at the stop price
\* open_rate * (1 + stoploss), stoploss being the risk model's fraction
\* when it is active and the strategy's otherwise; when the order is
\* placed its id is recorded in stoploss_order_id and the pass goes on to
\* the sell logic (the trade is reported as not closed).
C12_OneStoplossAtStopPrice ==
  C12_Unprotected =>
    LET t  == last.t
        tr == trades[t]
        b  == last.before[t]
        fraction == IF config.edge THEN edge_stoploss_pct ELSE stoploss_pct
    IN /\ Count("stoploss") + Count("stoploss_failed") = 1
       /\ Logged("stoploss") =>
            /\ tr.stoploss_order_id # None
            /\ orders[tr.stoploss_order_id].side = "stoploss"
            /\ orders[tr.stoploss_order_id].trade = t
            /\ orders[tr.stoploss_order_id].amount = b.amount
            /\ orders[tr.stoploss_order_id].price =
                 (b.open_rate * (100 + fraction)) \div 100
            /\ Count("stoploss") = 1
            /\ Logged("handle_trade")

\* With the risk model active, a stoploss order has been placed for an
\* unprotected trade.
C12_PlacedWithEdge ==
  /\ C12_Unprotected
  /\ Ran("exit")
  /\ config.edge
  /\ Logged("stoploss")
  /\ trades[last.t].is_open

\* C13: when the recorded stoploss order is found closed on the exchange,
\* the pass sets sell_reason to stoploss-on-exchange, closes the trade at
\* the price of that order, locks the pair, sends the exit notification
\* and reports the trade closed; the sell logic does not run for the trade
\* in that pass and no sell order is placed.
C13_ClosedByStoploss ==
  (last.op = "exit" /\ last.stoploss_order.status = "closed") =>
    LET tr == trades[last.t]
    IN /\ tr.sell_reason = "stoploss_on_exchange"
       /\ ~tr.is_open
       /\ tr.close_rate = last.stoploss_order.price
       /\ tr.pair \in locks
       /\ Logged("lock_pair")
       /\ Logged("notify_sell")
       /\ last.ret = TRUE
       /\ last.exc = "none"
       /\ ~Logged("handle_trade")
       /\ ~Logged("sell")
       /\ ~Logged("stoploss")

\* The stoploss order of an open trade was found filled.
C13_StoplossFilled ==
  /\ Ran("exit")
  /\ last.stoploss_order.status = "closed"
  /\ last.before[last.t].is_open
  /\ last.before[last.t].stoploss_order_id = last.stoploss_order.id

\* The balance available for a new trade, from the repository and the free
\* balance the handler of the step just taken has seen.
Available ==
  ((total_open_trades_stakes(last.before) + last.free)
     * config.tradable_balance_ratio) \div 100
  - total_open_trades_stakes(last.before)

\* Stake sizing has answered in the step just taken.
Sized == last.op \in {"enter", "stake"} /\ last.stake.exc # "unset"

\* C14: in every configuration stake sizing either returns a stake that is
\* not greater than the available balance, or fails with a
\* DependencyException (and the entry it was asked for changes nothing).
C14_StakeWithinAvailable ==
  Sized =>
    \/ /\ last.stake.exc = "none"
       /\ last.stake.val <= Available
    \/ /\ last.stake.exc = "dep"
       /\ last.op = "enter" => (trades = last.before /\ ~Logged("buy"))

\* With open trades tying up a stake, stake sizing has returned all of the
\* available balance.
C14_AllAvailable ==
  /\ Sized
  /\ total_open_trades_stakes(last.before) > 0
  /\ last.stake.exc = "none"
  /\ last.stake.val = Available
  /\ last.stake.val > 0

\* No slot is free in the repository stake sizing has read.
C15_NoFreeSlot ==
  Cardinality(get_open_trades(last.before)) >= config.max_open_trades

\* C15 as stated: stake sizing returns exactly zero whenever no slot is
\* free.
C15_ZeroWithoutSlot ==
  (Sized /\ C15_NoFreeSlot) =>
    (last.stake.exc = "none" /\ last.stake.val = 0)

\* C15 amended: with the unlimited stake (and no risk model) stake sizing
\* returns zero when no slot is free, or fails with a DependencyException
\* when the available balance is negative; an entry attempt that finds no
\* free slot does not ask for a stake and buys nothing.
C15_ZeroWhenUnlimited ==
  /\ (Sized /\ C15_NoFreeSlot /\ config.unlimited_stake /\ ~config.edge) =>
       \/ last.stake.exc = "none" /\ last.stake.val = 0
       \/ last.stake.exc = "dep" /\ Available < 0
  /\ (last.op = "enter" /\ C15_NoFreeSlot) =>
       /\ last.stake = NoStake
       /\ trades = last.before
       /\ ~Logged("buy")

\* With the unlimited stake, a positive free balance and no free slot,
\* stake sizing has returned zero.
C15_UnlimitedFull ==
  /\ last.op = "stake"
  /\ C15_NoFreeSlot
  /\ config.unlimited_stake
  /\ ~config.edge
  /\ last.free > 0
  /\ last.stake = [exc |-> "none", val |-> 0]

\* C16: for every wallet balance w and recorded amount a the sellable
\* amount is a when w >= a, w when w is below a by less than 2% of a, and a
\* DependencyException otherwise; (100, 100) gives 100, (99, 100) gives 99
\* and (90, 100) fails; an amount returned is never greater than the
\* wallet's balance.
C16_SellableAmount ==
  last.sellable.exc # "unset" =>
    LET w == last.wallet
        a == last.amount
        r == last.sellable
    IN /\ w >= a => r = [exc |-> "none", val |-> a]
       /\ (w < a /\ w * 100 > a * 98) => r = [exc |-> "none", val |-> w]
       /\ (w < a /\ w * 100 <= a * 98) => r.exc = "dep"
       /\ (w = 100 /\ a = 100) => r = [exc |-> "none", val |-> 100]
       /\ (w = 99 /\ a = 100) => r = [exc |-> "none", val |-> 99]
       /\ (w = 90 /\ a = 100) => r.exc = "dep"
       /\ r.exc = "none" => r.val <= w

\* The wallet showed 99 for a recorded amount of 100 and 99 is sold.
C16_WithinBand ==
  /\ last.op = "sellable"
  /\ last.wallet = 99
  /\ last.amount = 100
  /\ last.sellable = [exc |-> "none", val |-> 99]

\* The caches, by side.
Caches == [buy |-> buy_rate_cache, sell |-> sell_rate_cache]

\* The step is a rate lookup that allowed cached data and returned.
C17_Cached == last'.op = "rate" /\ ~last'.refresh /\ last'.exc = "none"

\* The step changes the entry of the pair on the side of its lookup only,
\* to a new entry that holds the rate the lookup returned.
C17_OverwroteOwnEntry ==
  /\ Caches'[last'.side][last'.pair] = [rate |-> last'.rate, age |-> 0]
  /\ \A s \in Sides : \A p \in Pairs :
       (s # last'.side \/ p # last'.pair) => Caches'[s][p] = Caches[s][p]

\* A lookup that does not allow cached data asks the price source, and
\* when the source answers, the answer is returned and overwrites the
\* entry of that pair on that side only.
C17_Refreshed ==
  (last'.op = "rate" /\ last'.refresh) =>
    /\ last'.invoked
    /\ last'.exc = "none" => C17_OverwroteOwnEntry
    /\ last'.exc # "none" => Caches' = Caches

C18_Fallback ==
  /\ last.op = "real"
  /\ last.before[last.t].fee_open # 0
  /\ last.order.status # "open"
  /\ last.order.fee.currency # "base"
  /\ Len(last.fills) > 0

C19_Uncorrected ==
  IF last.op = "timeout" THEN C9_Filled ELSE last.order.amount

\* The handler of the step just taken applied a fee correction to the
\* amount of its trade: on a buy that came back closed, on reconciling the
\* pending buy order, or on the timeout of a partially filled buy order.
C19_FeeCorrected ==
  /\ last.op \in {"enter", "exit", "timeout"}
  /\ last.order.side = "buy"
  /\ last.t \in TradeIds
  /\ Exists(trades[last.t])
  /\ trades[last.t].fee_open = 0
  /\ \/ ~Exists(last.before[last.t])
     \/ last.before[last.t].fee_open # 0

C20_OpenPairsWhitelisted ==
  last.op = "refresh" =>
    /\ \A t \in get_open_trades(trades) :
         trades[t].pair \in active_pair_whitelist
    /\ last.whitelist \subseteq active_pair_whitelist

\* The whitelist of a cycle was refreshed while a trade was open on a pair
\* the pairlist (or the risk model) had left out.
C20_ExcludedPairKept ==
  /\ last.op = "refresh"
  /\ \E t \in get_open_trades(trades) : trades[t].pair \notin last.whitelist

\* C21: a failure of an exchange call while one trade or pair is processed
\* (in the exit pass, in an entry, in timeout handling and its cancel
\* request) does not leave the handler: the phase of the cycle goes on with
\* the trades and pairs that remain.
C21_CycleGoesOn ==
  last.op \in {"exit", "enter", "timeout"} =>
    /\ last.exc = "none"
    /\ pc = last.op

\* C22: when the notification of an exit or of a cancellation cannot be
\* built or delivered, nothing leaves the handler and the pass goes on
\* with the other trades; what the handler did is kept (the sell order it
\* placed is the trade's pending order, the trade it reopened or shrank has
\* no pending order) and is not done again.
C22_NotificationHarmless ==
  (last.op \in {"exit", "timeout"} /\ Logged("notify_failed")) =>
    /\ last.exc = "none"
    /\ pc = last.op
    /\ Count("sell") <= 1
    /\ Count("cancel") <= 1
    /\ (Logged("sell") /\ trades[last.t].is_open) =>
         /\ trades[last.t].open_order_id # None
         /\ orders[trades[last.t].open_order_id].side = "sell"
    /\ (last.op = "timeout" /\ Exists(trades[last.t])) =>
         trades[last.t].open_order_id = None

\* The exit pass has called create_stoploss_order once.
C23_Called ==
  /\ last.op = "exit"
  /\ Count("stoploss") + Count("stoploss_failed") = 1

\* C23: create_stoploss_order stores the id of the new order and a
\* last-update timestamp on the trade and returns True; when the exchange
\* rejects the order it clears stoploss_order_id, forces exactly one
\* emergency exit at the stop price without placing again, and returns
\* False; on another failure it clears stoploss_order_id, submits no exit
\* and returns False.
C23_PlacementOutcomes ==
  C23_Called =>
    LET tr == trades[last.t]
    IN /\ Logged("stoploss") =>
            /\ tr.stoploss_order_id # None
            /\ orders[tr.stoploss_order_id].side = "stoploss"
            /\ orders[tr.stoploss_order_id].price = last.stop_price
            /\ tr.stoploss_last_update = "set"
            /\ last.created = "True"
       /\ Logged("emergency_sell") =>
            /\ tr.stoploss_order_id = None
            /\ Count("sell") = 1
            /\ tr.sell_reason = "emergency_sell"
            /\ tr.close_rate_requested = last.stop_price
            /\ last.created = "False"
       /\ (Logged("stoploss_failed") /\ ~Logged("emergency_sell")) =>
            /\ tr.stoploss_order_id = None
            /\ tr.sell_reason # "emergency_sell"
            /\ last.created = "False"


\* C24: when the exit pass replaces the stoploss order of a trade (the old
\* order is cancelled for trailing and a new one is placed), the stop price
\* of the new order is not lower than the stop price of the order it
\* replaces, also when the new stop is pinned to the bid.
C24_NeverLower ==
  (/\ last.op = "exit"
   /\ Logged("cancel_trailing")
   /\ Logged("stoploss")) =>
    last.stop_price >= last.stoploss_order.price


\* C25: the exit pass cancels the stoploss order of a trade for trailing
\* only when the stop has moved above the order's stop price and at least
\* update_beat seconds have passed since the order was placed; before that
\* the order is neither cancelled nor replaced.
C25_ReplacedAfterInterval ==
  last.op = "exit" =>
    /\ Logged("cancel_trailing") =>
         /\ last.before[last.t].stop_loss > last.stoploss_order.price
         /\ last.elapsed >= update_beat
    /\ (last.elapsed # -1 /\ last.elapsed < update_beat) =>
         /\ ~Logged("cancel_trailing")
         /\ ~Logged("stoploss")


C27_TooLow == Available * 100 <= last.target * last_stake_amount_min_ratio

\* C27 as stated: with amend_last_stake_amount, stake sizing returns the
\* available balance when it is below the target and above target x
\* min_ratio, returns zero without failing when it is at or below target x
\* min_ratio, and returns the target when the available balance covers it.
C27_AmendedStake ==
  (Sized /\ config.amend_last_stake_amount) =>
    /\ (Available < last.target /\ ~C27_TooLow) =>
         last.stake = [exc |-> "none", val |-> Available]
    /\ C27_TooLow =>
         last.stake = [exc |-> "none", val |-> 0]
    /\ Available >= last.target =>
         last.stake = [exc |-> "none", val |-> last.target]

\* C27 amended: as stated, unless the available balance is negative: then
\* the zero stake is above the available balance and stake sizing fails
\* with a DependencyException; the target is returned unchanged when the
\* available balance covers it and is above target x min_ratio.
C27_AmendedStakeUnlessNegative ==
  (Sized /\ config.amend_last_stake_amount) =>
    /\ (Available < last.target /\ ~C27_TooLow) =>
         last.stake = [exc |-> "none", val |-> Available]
    /\ (C27_TooLow /\ Available >= 0) =>
         last.stake = [exc |-> "none", val |-> 0]
    /\ (C27_TooLow /\ Available < 0) =>
         last.stake = [exc |-> "dep", val |-> 0]
    /\ (Available >= last.target /\ ~C27_TooLow) =>
         last.stake = [exc |-> "none", val |-> last.target]

\* The last stake was shrunk to an available balance below the target.
C27_Shrunk ==
  /\ Sized
  /\ config.amend_last_stake_amount
  /\ Available < last.target
  /\ Available > 0
  /\ last.stake = [exc |-> "none", val |-> Available]


\* The position of the first entry e in the log of the step just taken, 0
\* when there is none.
C28_At(e) ==
  IF Logged(e) THEN MinOf({i \in DOMAIN last.log : last.log[i] = e}) ELSE 0

\* The sale of the step just taken went on after the cancel request: the
\* cancel request came before the sell order, the sellable amount was
\* asked for, and a sell order that was submitted is recorded on the trade.
C28_SaleWentOn ==
  /\ last.sellable.exc # "unset"
  /\ Logged("sell") =>
       /\ C28_At("cancel_stoploss") < C28_At("sell")
       /\ trades[last.t].close_rate_requested # None
       /\ trades[last.t].sell_reason # "none"
       /\ \/ /\ trades[last.t].open_order_id # None
             /\ orders[trades[last.t].open_order_id].side = "sell"
          \/ ~trades[last.t].is_open
  /\ ~Logged("sell") => last.sellable.exc = "dep" \/ Logged("warning")
                        \/ last.exc # "none"

\* C28 as stated: when execute_sell has sent the cancel request for the
\* recorded stoploss order and the request failed, the sale goes on.
C28_CancelFailureNonFatal ==
  (last.op = "exit" /\ (Logged("cancel_failed") \/ Logged("cancel_raised"))) =>
    C28_SaleWentOn

\* C28 amended: the sale goes on when the cancel request succeeds or fails
\* with an InvalidOrderException; any other failure of the request leaves
\* execute_sell: no sell order is submitted and the trade is left as it was.
C28_InvalidCancelNonFatal ==
  last.op = "exit" =>
    /\ (Logged("cancel_stoploss") /\ ~Logged("cancel_raised")) => C28_SaleWentOn
    /\ Logged("cancel_raised") =>
         /\ ~Logged("sell")
         /\ last.sellable.exc = "unset"
         /\ trades[last.t].open_order_id = None
         /\ trades[last.t].sell_reason = last.before[last.t].sell_reason
         /\ Logged("warning")

\* The cancel request failed with an InvalidOrderException and the sell
\* order was submitted all the same.
C28_SoldAfterFailedCancel ==
  /\ last.op = "exit"
  /\ Logged("cancel_failed")
  /\ Logged("sell")
  /\ trades[last.t].open_order_id # None


\* Timeout handling has looked at a pending trade and found nothing to do:
\* the fetch of its order failed, or nothing remains of the order, or the
\* order is open and younger than the timeout, or no timeout is configured.
C29_NothingToDo ==
  /\ last.op = "timeout"
  /\ last.before[last.t].open_order_id # None
  /\ \/ Logged("fetch_failed")
     \/ /\ last.order.id # None
        /\ \/ last.order.remaining = 0
           \/ /\ last.order.status = "open"
              /\ ~last.old \/ ~config.unfilledtimeout

\* C29: in these cases timeout handling leaves the trade as it was and
\* sends no cancel request for its order.
C29_LeftUnchanged ==
  C29_NothingToDo =>
    /\ trades = last.before
    /\ ~Logged("cancel")
    /\ ~Logged("delete")
    /\ last.exc = "none"
    /\ pc = "timeout"

\* A young open order with a quantity left was left alone although a
\* timeout is configured.
C29_YoungOrderLeft ==
  /\ C29_NothingToDo
  /\ config.unfilledtimeout
  /\ last.order.status = "open"
  /\ last.order.remaining > 0
  /\ ~last.old
  /\ trades[last.t].open_order_id = last.order.id


\* The pending order of trade t is open on the exchange with a quantity
\* left.
C30_PendingOpen(t) ==
  /\ Exists(trades[t])
  /\ trades[t].open_order_id # None
  /\ orders[trades[t].open_order_id].status = "open"
  /\ orders[trades[t].open_order_id].remaining > 0

\* Trade t is not pending any more, or the exchange has filled its order.
C30_Resolved(t) ==
  \/ ~Exists(trades[t])
  \/ trades[t].open_order_id = None
  \/ orders[trades[t].open_order_id].remaining = 0

\* The pending order of trade t is a sell order of which a part is filled.
C30_PartialSell(t) ==
  /\ C30_PendingOpen(t)
  /\ orders[trades[t].open_order_id].side = "sell"
  /\ orders[trades[t].open_order_id].remaining
       < orders[trades[t].open_order_id].amount

\* C30 as stated: under CycleFairness no trade stays for ever pending with
\* an order that is open with a quantity left: the trade stops being
\* pending, unless the exchange ends the order first.
C30_EventuallyNotPending ==
  \A t \in TradeIds : C30_PendingOpen(t) ~> ~C30_PendingOpen(t)

\* C30 amended: under CycleFairness every trade whose pending order is open
\* with a quantity left stops being pending (it is deleted or its
\* open_order_id is cleared) unless the exchange fills the order, or the
\* order is a sell order of which a part is filled: such a trade stays
\* pending.
C30_EventuallyNotPendingUnlessPartialSell ==
  \A t \in TradeIds :
    C30_PendingOpen(t) ~> (C30_Resolved(t) \/ C30_PartialSell(t))

\* Timeout handling has cancelled an open, unfilled sell order that was
\* overdue, and the trade is not pending any more.
C30_OverdueSellResolved ==
  /\ last.op = "timeout"
  /\ last.order.side = "sell"
  /\ last.order.status = "open"
  /\ last.old
  /\ Logged("cancel")
  /\ trades[last.t].open_order_id = None

\* C31: in one pass of the exit evaluation over a trade at most one sell
\* order is submitted for the trade, and no stoploss order is placed for it
\* after a sell order was submitted in that pass.
C31_OneSellPerPass ==
  last.op = "exit" =>
    /\ Count("sell") <= 1
    /\ \A i, j \in DOMAIN last.log :
         (last.log[i] = "sell" /\ last.log[j] = "stoploss") => j < i

\* C32: the number of open trades never exceeds max_open_trades, and an
\* entry submits a buy order only while a slot is free: once the trades
\* created in an entry pass have filled the last slot, the pass submits no
\* further buy order.
C32_SlotsRespected ==
  /\ Cardinality(get_open_trades(trades)) <= config.max_open_trades
  /\ (last.op = "enter" /\ Logged("buy")) =>
       Cardinality(get_open_trades(last.before)) < config.max_open_trades

\* The entry pass has filled the last slot and has gone on to another pair
\* without buying.
C32_LastSlotFilled ==
  /\ Ran("enter")
  /\ pc = "enter"
  /\ Cardinality(get_open_trades(last.before)) = config.max_open_trades
  /\ last.pair \notin {last.before[t].pair : t \in get_open_trades(last.before)}
  /\ ~Logged("buy")
  /\ trades = last.before

\* C33: no two open trades share a pair: an entry submits a buy order only
\* for a pair that has no open trade, and an entry pass comes to each pair
\* of its list once.
C33_OnePairOneTrade ==
  /\ \A t1, t2 \in get_open_trades(trades) :
       trades[t1].pair = trades[t2].pair => t1 = t2
  /\ (last.op = "enter" /\ Logged("buy")) =>
       last.pair \notin {last.before[t].pair : t \in get_open_trades(last.before)}
  /\ last.op = "enter" => last.pair \notin todo

\* With a trade open for one pair of the whitelist and a slot free, the
\* entry pass has bought the other pair.
C33_SecondPairBought ==
  /\ Ran("enter")
  /\ Logged("buy")
  /\ get_open_trades(last.before) # {}
  /\ {last.before[t].pair : t \in get_open_trades(last.before)}
       \subseteq active_pair_whitelist
  /\ Cardinality(get_open_trades(trades)) = 2

\* The order bookkeeping of a trade: its pending order, its stoploss order,
\* whether it is open, and its close fields.
C34_Bookkeeping(tr) ==
  <<tr.st, tr.open_order_id, tr.stoploss_order_id, tr.is_open, tr.close_rate,
    tr.close_profit, tr.close_date>>

\* C34: every step of the main cycle that changes the order bookkeeping of
\* an existing trade, timeout handling included, runs while the main thread
\* holds the sell lock.
C34_ChangesUnderLock ==
  [][(/\ last'.op \in {"exit", "timeout"}
      /\ \E t \in TradeIds :
           /\ Exists(trades[t])
           /\ C34_Bookkeeping(trades'[t]) # C34_Bookkeeping(trades[t]))
     => lock = "main"]_vars

\* The last exit attempt of the pass failed in _safe_sell_amount.
C35_FailedAttempt ==
  /\ last.op = "exit"
  /\ last.sellable.exc = "dep"

\* The failed attempt: it submits no sell order, leaves the trade as it
\* found it, locks no pair and emits no exit notification.
C35_AttemptUndone ==
  C35_FailedAttempt =>
    /\ \A i \in DOMAIN last.log :
         i > last.attempt.at =>
           last.log[i] \notin {"sell", "lock_pair", "notify_sell", "notify_failed"}
    /\ trades[last.t] = last.attempt.trade
    /\ locks = last.attempt.locks

\* The exit pass comes to an open trade without a pending order whose
\* stoploss order it has fetched and found cancelled.
C35_FoundCancelled ==
  /\ last.op = "exit"
  /\ config.stoploss_on_exchange
  /\ last.before[last.t].is_open
  /\ last.before[last.t].open_order_id = None
  /\ last.stoploss_order.status = "canceled"

\* The later cycle: the exit pass asks the exchange for a new stoploss
\* order before anything else is done with the trade; the order is placed
\* and recorded on the trade, or the exchange refuses it.
C35_RearmedFirst ==
  C35_FoundCancelled =>
    \E i \in DOMAIN last.log :
      /\ last.log[i] = "actionable"
      /\ i < Len(last.log)
      /\ last.log[i + 1] \in {"stoploss", "stoploss_failed"}

C35_Rearmed ==
  /\ C35_FoundCancelled
  /\ Logged("stoploss")
  /\ ~Logged("cancel_stoploss")
  /\ trades[last.t].stoploss_order_id # None
  /\ orders[trades[last.t].stoploss_order_id].status = "open"

\* C36: timeout handling emits the sell-cancel notification for a trade
\* only when the sell order of the trade was cancelled and the trade is
\* open and actionable again; for a partially filled sell order, which is
\* left as it is, no sell-cancel notification is emitted.
C36_NoticeOnlyWhenCancelled ==
  (last.op = "timeout" /\ Logged("notify_sell_cancel")) =>
    /\ last.order.side = "sell"
    /\ last.order.remaining = last.order.amount
    /\ Logged("cancel") \/ last.order.status = "canceled"
    /\ trades[last.t].is_open
    /\ trades[last.t].open_order_id = None

\* The quantity of the buy order the step just taken has reconciled that was
\* filled: what the cancelled order leaves after a timeout, the amount of
\* the order otherwise.
C37_Filled ==
  IF last.op = "timeout"
    THEN last.order.amount - remaining_after(last.corder, last.order)
    ELSE last.order.amount

\* C37: reconciling the buy order of a trade (update_trade_state in the
\* exit pass, handle_timedout_limit_buy for a partially filled order)
\* resets fee_open to zero only when a fee was deducted from the amount,
\* and once fee_open is zero the amount is what was filled, with nothing
\* deducted again.
C37_FeeResetWhenDeducted ==
  (/\ last.op \in {"exit", "timeout"}
   /\ last.order.id # None
   /\ last.order.side = "buy"
   /\ Exists(trades[last.t])) =>
    LET b  == last.before[last.t]
        tr == trades[last.t]
    IN /\ (b.fee_open # 0 /\ tr.fee_open = 0) => tr.amount < C37_Filled
       /\ b.fee_open = 0 =>
            /\ tr.fee_open = 0
            /\ tr.amount \in {b.amount, C37_Filled}

=============================================================================
